---- MODULE Spec2Model ----
(***************************************************************************)
(* canvas_sak: the change-score ledger, the formula validation and the     *)
(* derive_assignment_score / set_due_dates commands, as state machines.    *)
(*                                                                         *)
(* Text is a sequence of one-character strings.  A number is a record      *)
(*   [kind, neg, mant, exp]  standing for  (-1)^neg * mant / 10^exp,       *)
(* kind "int" or "float" (Python prints the two differently), kind "none"  *)
(* for Python's None.                                                      *)
(***************************************************************************)
EXTENDS Integers, Sequences, FiniteSets, TLC

VARIABLES
    \* one call of build_change_score_comment / parse_change_score_comment
    c_pc, c_mode, c_previous, c_new, c_parts, c_text, c_result

VARIABLES
    \* one target submission, edited by a human and by the tool in turn
    l_pc, l_score, l_comments, l_initial, l_lastHuman, l_humanEdited,
    l_toolUnsigned, l_humanUnsigned, l_editsVisible, l_lastRun, l_events

VARIABLES
    \* one call of validate_formula, as the command makes it
    f_pc, f_formula, f_var_names, f_probe, f_result

VARIABLES
    \* one run of a command: its options, its position, what it printed and
    \* the writes it sent to Canvas
    r_cmd, r_pc, r_dryrun, r_out, r_calls, r_i,
    \* derive_assignment_score: arguments and what Canvas holds
    r_use_last_assigned, r_course, r_target_assignment, r_formula, r_submissions,
    r_source_scores,
    \* derive_assignment_score: locals
    r_target, r_var_names, r_assignments, r_user_scores, r_computed, r_skipped_count,
    \* set_due_dates: the dates file, the assignments as fetched and as Canvas holds them
    r_lines, r_fetched, r_canvas

codecVars == <<c_pc, c_mode, c_previous, c_new, c_parts, c_text, c_result>>
ledgerVars == <<l_pc, l_score, l_comments, l_initial, l_lastHuman, l_humanEdited,
                l_toolUnsigned, l_humanUnsigned, l_editsVisible, l_lastRun, l_events>>
formulaVars == <<f_pc, f_formula, f_var_names, f_probe, f_result>>
runVars == <<r_cmd, r_pc, r_dryrun, r_out, r_calls, r_i, r_use_last_assigned, r_course,
             r_target_assignment, r_formula, r_submissions, r_source_scores, r_target,
             r_var_names, r_assignments, r_user_scores, r_computed, r_skipped_count,
             r_lines, r_fetched, r_canvas>>
\* ---------------------------------------------------- further state
VARIABLES
    \* one call of find_last_manual_score, loop by loop
    w_pc, w_current_score, w_comments, w_parsed, w_i, w_score_to_find, w_result

VARIABLES
    \* one call of normalize_name (twice over) or of get_assignment_normalized
    n_pc, n_mode, n_name, n_once, n_twice, n_course, n_var_name, n_found

VARIABLES
    \* one call of classify_link
    k_pc, k_url, k_canvas_domain, k_course_id, k_result

VARIABLES
    \* the external links of one validation run, checked one after the other
    e_pc, e_external_links, e_urls, e_i, e_cache, e_sent, e_replies, e_returns,
    e_link_issues

VARIABLES
    \* one call of check_until_date_consistency_for_group, loop by loop
    u_pc, u_assignments, u_i, u_offsets, u_offset_assignments, u_issues, u_result

VARIABLES
    \* one call of group_assignments_by_group, loop by loop
    g_pc, g_assignments, g_group_names, g_i, g_groups, g_result

walkVars == <<w_pc, w_current_score, w_comments, w_parsed, w_i, w_score_to_find,
              w_result>>
namesVars == <<n_pc, n_mode, n_name, n_once, n_twice, n_course, n_var_name, n_found>>
classifyVars == <<k_pc, k_url, k_canvas_domain, k_course_id, k_result>>
externalVars == <<e_pc, e_external_links, e_urls, e_i, e_cache, e_sent, e_replies,
                  e_returns, e_link_issues>>
untilVars == <<u_pc, u_assignments, u_i, u_offsets, u_offset_assignments, u_issues,
               u_result>>
groupingVars == <<g_pc, g_assignments, g_group_names, g_i, g_groups, g_result>>
moreVars == <<walkVars, namesVars, classifyVars, externalVars, untilVars, groupingVars>>
nonWalkVars == <<codecVars, ledgerVars, formulaVars, runVars, namesVars, classifyVars,
                 externalVars, untilVars, groupingVars>>
nonNamesVars == <<codecVars, ledgerVars, formulaVars, runVars, walkVars, classifyVars,
                  externalVars, untilVars, groupingVars>>
nonClassifyVars == <<codecVars, ledgerVars, formulaVars, runVars, walkVars, namesVars,
                     externalVars, untilVars, groupingVars>>
nonExternalVars == <<codecVars, ledgerVars, formulaVars, runVars, walkVars, namesVars,
                     classifyVars, untilVars, groupingVars>>
nonUntilVars == <<codecVars, ledgerVars, formulaVars, runVars, walkVars, namesVars,
                  classifyVars, externalVars, groupingVars>>
nonGroupingVars == <<codecVars, ledgerVars, formulaVars, runVars, walkVars, namesVars,
                     classifyVars, externalVars, untilVars>>
\* ---------------------------------------------------- end of state

vars == <<codecVars, ledgerVars, formulaVars, runVars, moreVars>>
nonCodecVars == <<ledgerVars, formulaVars, runVars, moreVars>>
nonLedgerVars == <<codecVars, formulaVars, runVars, moreVars>>
nonFormulaVars == <<codecVars, ledgerVars, runVars, moreVars>>
nonRunVars == <<codecVars, ledgerVars, formulaVars, moreVars>>

\* ------------------------------------------------------------------ bounds
MaxMant == 12
MaxExp == 1
MaxEvents == 5

\* ----------------------------------------------------------------- numbers
RECURSIVE Pow10(_)
Pow10(k) == IF k = 0 THEN 1 ELSE 10 * Pow10(k - 1)

None == [kind |-> "none", neg |-> FALSE, mant |-> 0, exp |-> 0]

PyInt(n) == [kind |-> "int", neg |-> n < 0, mant |-> IF n < 0 THEN -n ELSE n, exp |-> 0]

PyFloat(neg, mant, exp) == [kind |-> "float", neg |-> neg, mant |-> mant, exp |-> exp]

IsNone(v) == v.kind = "none"

\* Python's ==  on None, int and float: numeric, 90 == 90.0, None equals only None.
PyEq(a, b) ==
    IF IsNone(a) \/ IsNone(b)
    THEN IsNone(a) /\ IsNone(b)
    ELSE /\ a.mant * Pow10(b.exp) = b.mant * Pow10(a.exp)
         /\ (a.neg = b.neg \/ a.mant = 0)

\* A float in lowest terms: no trailing zero among the fractional digits.
RECURSIVE Canonical(_)
Canonical(v) ==
    IF v.exp > 0 /\ v.mant % 10 = 0
    THEN Canonical([v EXCEPT !.mant = v.mant \div 10, !.exp = v.exp - 1])
    ELSE v

IsCanonical(v) == v.exp = 0 \/ v.mant % 10 # 0

\* The ints and floats of the model: every magnitude up to MaxMant with up to
\* MaxExp fractional digits, of either sign (no negative zero).
Numbers ==
    { v \in [kind : {"int", "float"}, neg : BOOLEAN, mant : 0..MaxMant, exp : 0..MaxExp] :
        /\ IsCanonical(v)
        /\ (v.kind = "int" => v.exp = 0)
        /\ (v.neg => v.mant > 0) }

NonNegNumbers == { v \in Numbers : ~v.neg }

\* -------------------------------------------------------------------- text
Digit == <<"0", "1", "2", "3", "4", "5", "6", "7", "8", "9">>
IsDigit(c) == \E i \in 1..10 : Digit[i] = c
DigitValue(c) == (CHOOSE i \in 1..10 : Digit[i] = c) - 1
IsSpace(c) == c \in {" ", "\t", "\n"}

RECURSIVE Digits(_)
Digits(n) == IF n < 10 THEN <<Digit[n + 1]>> ELSE Digits(n \div 10) \o <<Digit[(n % 10) + 1]>>

RECURSIVE ZeroPad(_, _)
ZeroPad(s, width) == IF Len(s) >= width THEN s ELSE ZeroPad(<<"0">> \o s, width)

\* str() of an int or a float, as an f-string field prints it: 90 -> "90",
\* 90.0 -> "90.0", 8.5 -> "8.5", -5.0 -> "-5.0".
PyStr(v) ==
    LET sign == IF v.neg THEN <<"-">> ELSE <<>>
        ip == v.mant \div Pow10(v.exp)
        fp == v.mant % Pow10(v.exp)
    IN  IF v.kind = "none" THEN <<"N", "o", "n", "e">>
        ELSE IF v.kind = "int" THEN sign \o Digits(v.mant)
        ELSE IF v.exp = 0 THEN sign \o Digits(v.mant) \o <<".", "0">>
        ELSE sign \o Digits(ip) \o <<".">> \o ZeroPad(Digits(fp), v.exp)

\* str.strip(): leading and trailing whitespace removed.
RECURSIVE LStrip(_)
LStrip(t) == IF t # <<>> /\ IsSpace(Head(t)) THEN LStrip(Tail(t)) ELSE t
RECURSIVE RStrip(_)
RStrip(t) == IF t # <<>> /\ IsSpace(t[Len(t)]) THEN RStrip(SubSeq(t, 1, Len(t) - 1)) ELSE t
Strip(t) == RStrip(LStrip(t))

\* The text has the literal lit at position pos.
HasAt(t, pos, lit) ==
    /\ pos + Len(lit) - 1 <= Len(t)
    /\ SubSeq(t, pos, pos + Len(lit) - 1) = lit

\* First position >= pos that holds no whitespace (\s* is greedy, and what
\* follows it in both patterns is never whitespace).
RECURSIVE SkipSpace(_, _)
SkipSpace(t, pos) == IF pos <= Len(t) /\ IsSpace(t[pos]) THEN SkipSpace(t, pos + 1) ELSE pos

\* First position >= pos that holds neither a digit nor a dot: the end of [\d.]+
RECURSIVE SkipField(_, _)
SkipField(t, pos) ==
    IF pos <= Len(t) /\ (IsDigit(t[pos]) \/ t[pos] = ".") THEN SkipField(t, pos + 1) ELSE pos

RECURSIVE CountDots(_)
CountDots(f) == IF f = <<>> THEN 0 ELSE (IF Head(f) = "." THEN 1 ELSE 0) + CountDots(Tail(f))

RECURSIVE DigitsValue(_)
DigitsValue(f) ==
    IF f = <<>> THEN 0
    ELSE IF f[Len(f)] = "." THEN DigitsValue(SubSeq(f, 1, Len(f) - 1))
    ELSE 10 * DigitsValue(SubSeq(f, 1, Len(f) - 1)) + DigitValue(f[Len(f)])

RECURSIVE DigitsAfterDot(_)
DigitsAfterDot(f) ==
    IF f = <<>> \/ CountDots(f) = 0 THEN 0
    ELSE IF f[Len(f)] = "." THEN 0
    ELSE 1 + DigitsAfterDot(SubSeq(f, 1, Len(f) - 1))

\* float(s) on a string of digits and dots: a value for one dot at most and one
\* digit at least ("5", "5.", ".5", "8.5"), ValueError otherwise (".", "1.2.3").
FloatAccepts(f) == CountDots(f) <= 1 /\ Len(f) > CountDots(f)

PyFloatOf(f) == Canonical(PyFloat(FALSE, DigitsValue(f), DigitsAfterDot(f)))

\* ------------------------------------------------------ change-score ledger
Chars_change_score == <<"c", "h", "a", "n", "g", "e", "-", "s", "c", "o", "r", "e">>
Chars_previous == <<"p", "r", "e", "v", "i", "o", "u", "s", ":">>
Chars_new == <<"n", "e", "w", ":">>

\* What a call gives back: a value ("ok"), Python's None ("none") or an
\* exception that leaves the function ("raise").
NoMatch == [tag |-> "none", previous |-> None, new |-> None]
Raised == [tag |-> "raise", previous |-> None, new |-> None]
Record(previous, new) == [tag |-> "ok", previous |-> previous, new |-> new]

\* ^change-score\s+previous:\s*([\d.]+)\s+new:\s*([\d.]+)$  matched against t:
\* the two captured fields, or <<>> when the pattern does not match.
CHANGE_SCORE_WITH_PREV(t) ==
    LET p1 == Len(Chars_change_score) + 1
        p2 == SkipSpace(t, p1)
        p3 == p2 + Len(Chars_previous)
        p4 == SkipSpace(t, p3)
        p5 == SkipField(t, p4)
        p6 == SkipSpace(t, p5)
        p7 == p6 + Len(Chars_new)
        p8 == SkipSpace(t, p7)
        p9 == SkipField(t, p8)
    IN  IF /\ HasAt(t, 1, Chars_change_score)
           /\ p2 > p1
           /\ HasAt(t, p2, Chars_previous)
           /\ p5 > p4
           /\ p6 > p5
           /\ HasAt(t, p6, Chars_new)
           /\ p9 > p8
           /\ p9 = Len(t) + 1
        THEN <<SubSeq(t, p4, p5 - 1), SubSeq(t, p8, p9 - 1)>>
        ELSE <<>>

\* ^change-score\s+new:\s*([\d.]+)$
CHANGE_SCORE_NO_PREV(t) ==
    LET p1 == Len(Chars_change_score) + 1
        p2 == SkipSpace(t, p1)
        p3 == p2 + Len(Chars_new)
        p4 == SkipSpace(t, p3)
        p5 == SkipField(t, p4)
    IN  IF /\ HasAt(t, 1, Chars_change_score)
           /\ p2 > p1
           /\ HasAt(t, p2, Chars_new)
           /\ p5 > p4
           /\ p5 = Len(t) + 1
        THEN <<SubSeq(t, p4, p5 - 1)>>
        ELSE <<>>

build_change_score_comment(previous_score, new_score) ==
    IF IsNone(previous_score)
    THEN Chars_change_score \o <<" ">> \o Chars_new \o <<" ">> \o PyStr(new_score)
    ELSE Chars_change_score \o <<" ">> \o Chars_previous \o <<" ">> \o PyStr(previous_score)
             \o <<" ">> \o Chars_new \o <<" ">> \o PyStr(new_score)

\* A comment text is [present, chars]: present is FALSE for Python's None.
AbsentText == [present |-> FALSE, chars |-> <<>>]
Text(chars) == [present |-> TRUE, chars |-> chars]

parse_change_score_comment(comment_text) ==
    LET t == Strip(comment_text.chars)
        m1 == CHANGE_SCORE_WITH_PREV(t)
        m2 == CHANGE_SCORE_NO_PREV(t)
    IN  IF ~comment_text.present \/ comment_text.chars = <<>> THEN NoMatch
        ELSE IF m1 # <<>>
        THEN IF FloatAccepts(m1[1]) /\ FloatAccepts(m1[2])
             THEN Record(PyFloatOf(m1[1]), PyFloatOf(m1[2]))
             ELSE Raised
        ELSE IF m2 # <<>>
        THEN IF FloatAccepts(m2[1]) THEN Record(None, PyFloatOf(m2[1])) ELSE Raised
        ELSE NoMatch

\* The records of a comment list, in order; <<Raised>> in front when parsing
\* one of the comments raised (the exception leaves the loop).
RECURSIVE ParsedRecords(_)
ParsedRecords(comments) ==
    IF comments = <<>> THEN <<>>
    ELSE LET r == parse_change_score_comment(Head(comments))
             rest == ParsedRecords(Tail(comments))
         IN  IF r.tag = "raise" THEN <<Raised>>
             ELSE IF rest # <<>> /\ rest[1].tag = "raise" THEN rest
             ELSE IF r.tag = "ok" THEN <<r>> \o rest
             ELSE rest

\* The backward walk over parsed[1..i], looking for score_to_find.
RECURSIVE WalkBack(_, _, _)
WalkBack(parsed, i, score_to_find) ==
    IF i = 0 THEN score_to_find
    ELSE IF PyEq(parsed[i].new, score_to_find)
         THEN IF IsNone(parsed[i].previous) THEN None
              ELSE WalkBack(parsed, i - 1, parsed[i].previous)
         ELSE WalkBack(parsed, i - 1, score_to_find)

\* The result is [tag, value]: tag "raise" when a comment made float() raise.
find_last_manual_score(current_score, comments) ==
    LET parsed == ParsedRecords(comments)
        n == Len(parsed)
    IN  IF parsed # <<>> /\ parsed[1].tag = "raise" THEN [tag |-> "raise", value |-> None]
        ELSE IF parsed = <<>> THEN [tag |-> "ok", value |-> current_score]
        ELSE IF ~PyEq(current_score, parsed[n].new) THEN [tag |-> "ok", value |-> current_score]
        ELSE IF IsNone(parsed[n].previous) THEN [tag |-> "ok", value |-> None]
        ELSE [tag |-> "ok", value |-> WalkBack(parsed, n - 1, parsed[n].previous)]

\* ------------------------------------------- the ledger encoding, call by call
\* The comment texts handed to parse_change_score_comment: every way of putting
\* together  lead head sepA [previous: sepB field1 sepA] new: sepB field2 trail.
Fields ==
    { <<"9", "0">>, <<"9", ".", "5">>, <<"5", ".">>, <<".", "5">>, <<"0">>,
      <<".">>, <<"1", ".", "2", ".", "3">>, <<"-", "5">>, <<"9", "a">>, <<>> }

NoField == <<"?">>

TextParts ==
    [ lead : {<<>>, <<" ">>},
      head : {Chars_change_score, Tail(Chars_change_score)},
      sepA : {<<>>, <<" ">>, <<" ", " ">>},
      sepB : {<<>>, <<" ">>},
      field1 : Fields \cup {NoField},
      field2 : Fields,
      trail : {<<>>, <<" ">>, <<" ", "x">>} ]

NoParts ==
    [ lead |-> <<>>, head |-> <<>>, sepA |-> <<>>, sepB |-> <<>>,
      field1 |-> NoField, field2 |-> <<>>, trail |-> <<>> ]

TextOfParts(ps) ==
    ps.lead \o ps.head \o ps.sepA
        \o (IF ps.field1 = NoField THEN <<>>
            ELSE Chars_previous \o ps.sepB \o ps.field1 \o ps.sepA)
        \o Chars_new \o ps.sepB \o ps.field2 \o ps.trail

\* Texts that are no change-score record at all: None, "" and an ordinary remark.
RawTexts == { AbsentText, Text(<<>>), Text(<<"o", "k">>), Text(<<" ">>) }

\* Values of the variables of a part of the program that a run does not use.
IdleCodec ==
    /\ c_pc = "idle" /\ c_mode = "idle" /\ c_previous = None /\ c_new = None
    /\ c_parts = NoParts /\ c_text = AbsentText /\ c_result = NoMatch

\* A formula is a syntax tree: [k, id, n, a], k the kind of node, id its name or
\* operator, n its number, a its subtrees.
Num(n) == [k |-> "Num", id |-> "", n |-> n, a |-> <<>>]

NoValue == [t |-> "none", n |-> 0, d |-> 1, x |-> ""]
NoDiagnostic == [tag |-> "none", msg |-> ""]

IdleFormula ==
    /\ f_pc = "idle" /\ f_formula = Num(0) /\ f_var_names = {} /\ f_probe = NoValue
    /\ f_result = NoDiagnostic

IdleLedger ==
    /\ l_pc = "idle" /\ l_score = None /\ l_comments = <<>> /\ l_initial = None
    /\ l_lastHuman = None /\ l_humanEdited = FALSE /\ l_toolUnsigned = TRUE
    /\ l_humanUnsigned = TRUE
    /\ l_editsVisible = TRUE
    /\ l_lastRun = [ran |-> FALSE, written |-> FALSE, previous |-> None, new |-> None,
                    human |-> None]
    /\ l_events = 0

IdleRun ==
    /\ r_cmd = "idle" /\ r_pc = "idle" /\ r_dryrun = TRUE /\ r_out = <<>> /\ r_calls = <<>>
    /\ r_i = 0 /\ r_use_last_assigned = FALSE /\ r_course = <<>>
    /\ r_target_assignment = <<>> /\ r_formula = Num(0) /\ r_submissions = <<>>
    /\ r_source_scores = <<>> /\ r_target = 0 /\ r_var_names = <<>> /\ r_assignments = <<>>
    /\ r_user_scores = <<>> /\ r_computed = <<>> /\ r_skipped_count = 0
    /\ r_lines = <<>> /\ r_fetched = <<>> /\ r_canvas = <<>>

\* ---------------------------------------------------- further idle values
IdleWalk ==
    /\ w_pc = "idle" /\ w_current_score = None /\ w_comments = <<>> /\ w_parsed = <<>>
    /\ w_i = 0 /\ w_score_to_find = None /\ w_result = None

IdleNames ==
    /\ n_pc = "idle" /\ n_mode = "idle" /\ n_name = <<>> /\ n_once = <<>> /\ n_twice = <<>>
    /\ n_course = <<>> /\ n_var_name = <<>> /\ n_found = [tag |-> "none"]

IdleClassify ==
    /\ k_pc = "idle" /\ k_url = AbsentText /\ k_canvas_domain = <<>> /\ k_course_id = 0
    /\ k_result = [category |-> "none"]

IdleExternal ==
    /\ e_pc = "idle" /\ e_external_links = TRUE /\ e_urls = <<>> /\ e_i = 0 /\ e_cache = <<>>
    /\ e_sent = <<>> /\ e_replies = <<>> /\ e_returns = <<>> /\ e_link_issues = 0

IdleUntil ==
    /\ u_pc = "idle" /\ u_assignments = <<>> /\ u_i = 0 /\ u_offsets = <<>>
    /\ u_offset_assignments = <<>> /\ u_issues = <<>> /\ u_result = <<>>

IdleGrouping ==
    /\ g_pc = "idle" /\ g_assignments = <<>> /\ g_group_names = <<>> /\ g_i = 0
    /\ g_groups = <<>> /\ g_result = <<>>

IdleMore == IdleWalk /\ IdleNames /\ IdleClassify /\ IdleExternal /\ IdleUntil /\ IdleGrouping

IdleOld == IdleCodec /\ IdleLedger /\ IdleFormula /\ IdleRun

IdleButWalk == IdleOld /\ IdleNames /\ IdleClassify /\ IdleExternal /\ IdleUntil /\ IdleGrouping
IdleButNames == IdleOld /\ IdleWalk /\ IdleClassify /\ IdleExternal /\ IdleUntil /\ IdleGrouping
IdleButClassify == IdleOld /\ IdleWalk /\ IdleNames /\ IdleExternal /\ IdleUntil /\ IdleGrouping
IdleButExternal == IdleOld /\ IdleWalk /\ IdleNames /\ IdleClassify /\ IdleUntil /\ IdleGrouping
IdleButUntil == IdleOld /\ IdleWalk /\ IdleNames /\ IdleClassify /\ IdleExternal /\ IdleGrouping
IdleButGrouping == IdleOld /\ IdleWalk /\ IdleNames /\ IdleClassify /\ IdleExternal /\ IdleUntil
\* ---------------------------------------------------- end of idle values

InitCodec ==
    /\ IdleLedger /\ IdleFormula /\ IdleRun /\ IdleMore
    /\ c_pc = "input"
    /\ c_result = NoMatch
    /\ \/ /\ c_mode = "pair"
          /\ c_previous \in Numbers \cup {None}
          /\ c_new \in Numbers
          /\ c_parts = NoParts
          /\ c_text = AbsentText
       \/ /\ c_mode = "parts"
          /\ c_previous = None /\ c_new = None
          /\ c_parts \in TextParts
          /\ c_text = Text(TextOfParts(c_parts))
       \/ /\ c_mode = "raw"
          /\ c_previous = None /\ c_new = None
          /\ c_parts = NoParts
          /\ c_text \in RawTexts

Build ==
    /\ c_pc = "input" /\ c_mode = "pair"
    /\ c_text' = Text(build_change_score_comment(c_previous, c_new))
    /\ c_pc' = "built"
    /\ UNCHANGED <<c_mode, c_previous, c_new, c_parts, c_result>>
    /\ UNCHANGED nonCodecVars

Parse ==
    /\ \/ c_pc = "built"
       \/ c_pc = "input" /\ c_mode # "pair"
    /\ c_result' = parse_change_score_comment(c_text)
    /\ c_pc' = "parsed"
    /\ UNCHANGED <<c_mode, c_previous, c_new, c_parts, c_text>>
    /\ UNCHANGED nonCodecVars

NextCodec == Build \/ Parse

SpecCodec == InitCodec /\ [][NextCodec]_vars

\* ----------------------------------------------------------- claims C3, C10
\* C3: parse_change_score_comment(build_change_score_comment(previous, new))
\* returns (previous, new) for every previous that is None or a number and
\* every number new, zero, fractional and negative values included.
C3_RoundTrip ==
    (c_pc = "parsed" /\ c_mode = "pair") =>
        /\ c_result.tag = "ok"
        /\ PyEq(c_result.previous, c_previous)
        /\ PyEq(c_result.new, c_new)

\* What does hold of the round trip: it returns the pair whenever neither
\* number is negative, and None as soon as one of them is.
C3_RoundTripUnsigned ==
    (c_pc = "parsed" /\ c_mode = "pair") =>
        IF c_previous.neg \/ c_new.neg
        THEN c_result = NoMatch
        ELSE /\ c_result.tag = "ok"
             /\ PyEq(c_result.previous, c_previous)
             /\ PyEq(c_result.new, c_new)

C3_NegativeParsed == c_pc = "parsed" /\ c_mode = "pair" /\ c_new.neg /\ c_result = NoMatch

\* <decimal>: digits with at most one dot in them.
IsDecimal(f) ==
    /\ f # <<>>
    /\ \A i \in 1..Len(f) : IsDigit(f[i]) \/ f[i] = "."
    /\ CountDots(f) <= 1
    /\ Len(f) > CountDots(f)

\* The two shapes, whitespace between the parts as the patterns allow it.
WellShaped(ps) ==
    /\ ps.head = Chars_change_score
    /\ ps.sepA # <<>>
    /\ ps.field1 = NoField \/ IsDecimal(ps.field1)
    /\ IsDecimal(ps.field2)
    /\ Strip(ps.trail) = <<>>

\* C10: parse_change_score_comment accepts exactly the two shapes
\* 'change-score previous: <decimal> new: <decimal>' and 'change-score new:
\* <decimal>'; for every other text (empty, absent, a malformed numeric field
\* such as several dots) it returns None and never raises.
C10_ExactShapesNoRaise ==
    (c_pc = "parsed" /\ c_mode # "pair") =>
        /\ c_result.tag # "raise"
        /\ c_result.tag = "ok" <=> (c_mode = "parts" /\ WellShaped(c_parts))

\* What does hold: a text is taken for a record only in one of the two shapes,
\* and every text that is not returned as a record or None has the shape
\* except for a numeric field float() refuses.
C10_ShapesUpToRaise ==
    (c_pc = "parsed" /\ c_mode # "pair") =>
        /\ c_result.tag = "ok" <=> (c_mode = "parts" /\ WellShaped(c_parts))
        /\ c_result.tag = "raise" =>
              /\ c_mode = "parts"
              /\ WellShaped([c_parts EXCEPT !.field1 = NoField, !.field2 = <<"0">>])
              /\ ~IsDecimal(c_parts.field2) \/ ~(c_parts.field1 = NoField \/ IsDecimal(c_parts.field1))

C10_Raised == c_pc = "parsed" /\ c_result.tag = "raise"

\* ------------------------------------- one submission: human edits, tool runs
\* Scores a grader enters (None: the grade is cleared) and scores the formula
\* yields; Canvas stores a posted grade as a float.
HumanScores == { None, PyFloat(FALSE, 0, 0), PyFloat(FALSE, 8, 0), PyFloat(TRUE, 5, 0) }
ToolScores == { PyInt(0), PyFloat(FALSE, 8, 0), PyFloat(FALSE, 95, 1), PyFloat(TRUE, 5, 0) }

StoredScore(grade) == [grade EXCEPT !.kind = "float"]

InitLedger ==
    /\ IdleCodec /\ IdleFormula /\ IdleRun /\ IdleMore
    /\ l_pc = "open"
    /\ l_initial \in HumanScores
    /\ l_score = l_initial
    /\ l_lastHuman = l_initial
    /\ l_comments \in { <<>>, <<Text(<<"o", "k">>)>> }
    /\ l_humanEdited = FALSE
    /\ l_toolUnsigned = TRUE
    /\ l_humanUnsigned = ~l_initial.neg
    /\ l_editsVisible = TRUE
    /\ l_lastRun = [ran |-> FALSE, written |-> FALSE, previous |-> None, new |-> None,
                    human |-> None]
    /\ l_events = 0

\* A grader sets the score in the gradebook.
HumanEdit ==
    /\ l_pc = "open" /\ l_events < MaxEvents
    /\ \E v \in HumanScores :
          /\ l_score' = v
          /\ l_lastHuman' = v
          /\ l_humanUnsigned' = (l_humanUnsigned /\ ~v.neg)
          /\ l_editsVisible' = (l_editsVisible /\ ~(l_lastRun.written /\ PyEq(v, l_lastRun.new)))
    /\ l_humanEdited' = TRUE
    /\ l_events' = l_events + 1
    /\ UNCHANGED <<l_pc, l_comments, l_initial, l_toolUnsigned, l_lastRun>>
    /\ UNCHANGED nonLedgerVars

\* One run of the tool over this submission, --no-dryrun --use-last-assigned:
\* the compute step (previous_score from the ledger) and the commit step (the
\* grade and the ledger comment).  A raise inside the try skips the student.
ToolRun ==
    /\ l_pc = "open" /\ l_events < MaxEvents
    /\ \E result \in ToolScores :
          LET found == find_last_manual_score(l_score, l_comments)
              comment == build_change_score_comment(found.value, result)
          IN  /\ l_toolUnsigned' = (l_toolUnsigned /\ ~result.neg)
              /\ IF found.tag = "raise"
                 THEN /\ l_lastRun' = [ran |-> TRUE, written |-> FALSE, previous |-> None,
                                       new |-> result, human |-> l_lastHuman]
                      /\ UNCHANGED <<l_score, l_comments>>
                 ELSE /\ l_lastRun' = [ran |-> TRUE, written |-> TRUE, previous |-> found.value,
                                       new |-> result, human |-> l_lastHuman]
                      /\ l_score' = StoredScore(result)
                      /\ l_comments' = Append(l_comments, Text(comment))
    /\ l_events' = l_events + 1
    /\ UNCHANGED <<l_pc, l_initial, l_lastHuman, l_humanEdited, l_humanUnsigned, l_editsVisible>>
    /\ UNCHANGED nonLedgerVars

NextLedger == HumanEdit \/ ToolRun

SpecLedger == InitLedger /\ [][NextLedger]_vars

\* ------------------------------------------------------------ claims C1, C2
\* C1: in every interleaving of human edits and tool runs, the previous value a
\* tool run computes is the score most recently entered by a human (the
\* original score when no human edit has happened yet).
C1_PreviousIsLastHuman ==
    l_lastRun.ran => (l_lastRun.written /\ PyEq(l_lastRun.previous, l_lastRun.human))

\* The same claim on the runs where no score is negative and no human edit
\* enters the very value the tool wrote last: a record of an earlier chain is
\* still taken for a link of the current one.
C1_PreviousIsLastHumanPlain ==
    (l_lastRun.ran /\ l_toolUnsigned /\ l_humanUnsigned /\ l_editsVisible) =>
        (l_lastRun.written /\ PyEq(l_lastRun.previous, l_lastRun.human))

\* C2: run k >= 1 times in a row on a submission whose ledger holds no
\* change-score record and whose score M was entered by a human, with no human
\* edit between the runs, every run records previous = M, whatever
\* non-negative decimal values the formula yields.
C2_RepeatedRunsKeepInitial ==
    (l_lastRun.ran /\ ~l_humanEdited /\ l_toolUnsigned) =>
        (l_lastRun.written /\ PyEq(l_lastRun.previous, l_initial))

\* What does hold: the same, for an M that is absent or not negative.
C2_RepeatedRunsKeepUnsignedInitial ==
    (l_lastRun.ran /\ ~l_humanEdited /\ l_toolUnsigned /\ ~l_initial.neg) =>
        (l_lastRun.written /\ PyEq(l_lastRun.previous, l_initial))

C2_ThreeRunsInARow ==
    /\ l_lastRun.ran /\ ~l_humanEdited /\ l_toolUnsigned /\ ~l_initial.neg
    /\ l_events >= 3
    /\ PyEq(l_lastRun.new, l_initial)

\* ------------------------------------------------------------ formula engine
SAFE_FUNCTION_NAMES == {"min", "max", "sum", "abs", "round"}

Name(id) == [k |-> "Name", id |-> id, n |-> 0, a |-> <<>>]
BinOp(op, l, r) == [k |-> "BinOp", id |-> op, n |-> 0, a |-> <<l, r>>]
Call(fn, args) == [k |-> "Call", id |-> fn, n |-> 0, a |-> args]
Attribute(value, attr) == [k |-> "Attribute", id |-> attr, n |-> 0, a |-> <<value>>]
\* (target := value), an assignment expression
NamedExpr(target, value) == [k |-> "NamedExpr", id |-> target, n |-> 0, a |-> <<value>>]
\* the statements  target = value,  import module  and  first; second
Assign(target, value) == [k |-> "Assign", id |-> target, n |-> 0, a |-> <<value>>]
Import(module) == [k |-> "Import", id |-> module, n |-> 0, a |-> <<>>]
Multi(first, second) == [k |-> "Multi", id |-> ";", n |-> 0, a |-> <<first, second>>]

\* A value of the evaluation: the number n/d (d > 0), x its Python type, an
\* object that is no number (a function, a bound method), or the exception
\* that was raised.
NumV(n, d, type) == [t |-> "num", n |-> n, d |-> d, x |-> type]
IntV(n) == NumV(n, 1, "int")
FloatV(n, d) == NumV(n, d, "float")
ObjV(type) == [t |-> "obj", n |-> 0, d |-> 1, x |-> type]
ExcV(exception) == [t |-> "exc", n |-> 0, d |-> 1, x |-> exception]

IsZero(v) == v.n = 0
Less(v, w) == v.n * w.d < w.n * v.d

Arith(op, v, w) ==
    LET type == IF v.x = "int" /\ w.x = "int" THEN "int" ELSE "float"
    IN  IF op = "+" THEN NumV(v.n * w.d + w.n * v.d, v.d * w.d, type)
        ELSE IF op = "-" THEN NumV(v.n * w.d - w.n * v.d, v.d * w.d, type)
        ELSE IF op = "*" THEN NumV(v.n * w.n, v.d * w.d, type)
        ELSE IF IsZero(w) THEN ExcV("ZeroDivisionError")
        ELSE IF w.n < 0 THEN FloatV(-(v.n * w.d), v.d * (-w.n))
        ELSE FloatV(v.n * w.d, v.d * w.n)

\* round(x): the nearest int, a tie to the even one.
Round(v) ==
    LET q == v.n \div v.d
        r == v.n % v.d
    IN  IF 2 * r < v.d THEN IntV(q)
        ELSE IF 2 * r > v.d THEN IntV(q + 1)
        ELSE IF q % 2 = 0 THEN IntV(q) ELSE IntV(q + 1)

\* round(x, ndigits), ndigits an int that is not negative: x itself when x
\* has no fractional part or ndigits exceeds the digits a float holds.
RoundTo(v, ndigits) ==
    IF v.n % v.d = 0 \/ ndigits.n > 15 THEN v
    ELSE NumV(Round(NumV(v.n * Pow10(ndigits.n), v.d, v.x)).n, Pow10(ndigits.n), v.x)

\* A call of one of SAFE_FUNCTIONS on evaluated arguments, none of them a list.
Apply(fn, args) ==
    LET nums == \A i \in 1..Len(args) : args[i].t = "num"
    IN  IF fn = "abs"
        THEN IF Len(args) = 1 /\ nums
             THEN NumV(IF args[1].n < 0 THEN -args[1].n ELSE args[1].n, args[1].d, args[1].x)
             ELSE ExcV("TypeError")
        ELSE IF fn = "round"
        THEN IF Len(args) = 1 /\ nums THEN Round(args[1])
             ELSE IF Len(args) = 2 /\ nums /\ args[2].x = "int" /\ args[2].n >= 0
             THEN RoundTo(args[1], args[2])
             ELSE ExcV("TypeError")
        ELSE IF fn = "max"
        THEN IF Len(args) >= 2 /\ nums
             THEN args[CHOOSE i \in 1..Len(args) :
                        /\ \A j \in 1..Len(args) : ~Less(args[i], args[j])
                        /\ \A j \in 1..(i - 1) : Less(args[j], args[i])]
             ELSE ExcV("TypeError")
        ELSE IF fn = "min"
        THEN IF Len(args) >= 2 /\ nums
             THEN args[CHOOSE i \in 1..Len(args) :
                        /\ \A j \in 1..Len(args) : ~Less(args[j], args[i])
                        /\ \A j \in 1..(i - 1) : Less(args[i], args[j])]
             ELSE ExcV("TypeError")
        ELSE ExcV("TypeError")

\* Attributes of a float: real and imag are numbers, is_integer a method.
GetAttr(v, attr) ==
    IF v.t = "num" /\ attr = "real" THEN v
    ELSE IF v.t = "num" /\ attr = "imag" THEN NumV(0, 1, v.x)
    ELSE IF v.t = "num" /\ attr = "is_integer" THEN ObjV("builtin_function_or_method")
    ELSE ExcV("AttributeError")

\* eval(formula, {"__builtins__": {}}, namespace): namespace binds the names
\* of DOMAIN scores to numbers and SAFE_FUNCTION_NAMES to the functions.
RECURSIVE Eval(_, _)
RECURSIVE EvalArgs(_, _)
EvalArgs(args, scores) ==
    IF args = <<>> THEN <<>> ELSE <<Eval(Head(args), scores)>> \o EvalArgs(Tail(args), scores)

Eval(e, scores) ==
    IF e.k = "Num" THEN IntV(e.n)
    ELSE IF e.k = "Name"
    THEN IF e.id \in DOMAIN scores THEN scores[e.id]
         ELSE IF e.id \in SAFE_FUNCTION_NAMES THEN ObjV("builtin_function_or_method")
         ELSE ExcV("NameError")
    ELSE IF e.k = "BinOp"
    THEN LET l == Eval(e.a[1], scores)
             r == Eval(e.a[2], scores)
         IN  IF l.t = "exc" THEN l
             ELSE IF r.t = "exc" THEN r
             ELSE IF l.t # "num" \/ r.t # "num" THEN ExcV("TypeError")
             ELSE Arith(e.id, l, r)
    ELSE IF e.k = "Call"
    THEN LET callee == Eval(Name(e.id), scores)
             args == EvalArgs(e.a, scores)
             failed == { i \in 1..Len(args) : args[i].t = "exc" }
         IN  IF callee.t = "exc" THEN callee
             ELSE IF failed # {} THEN args[CHOOSE i \in failed : \A j \in failed : i <= j]
             ELSE IF callee.t = "num" THEN ExcV("TypeError")
             ELSE Apply(e.id, args)
    ELSE IF e.k = "Attribute"
    THEN LET v == Eval(e.a[1], scores)
         IN  IF v.t = "exc" THEN v ELSE GetAttr(v, e.id)
    ELSE IF e.k = "NamedExpr" THEN Eval(e.a[1], scores)
    ELSE ExcV("SyntaxError")

\* compile(formula, '<formula>', 'eval') takes an expression and no statement.
CompilesAsExpression(formula) == formula.k \notin {"Assign", "Import", "Multi"}

\* The identifiers of the formula's text.
RECURSIVE Identifiers(_)
Identifiers(e) ==
    (IF e.k \in {"Name", "Call", "Attribute", "NamedExpr", "Assign"} THEN {e.id}
     ELSE IF e.k = "Import" THEN {"import", e.id}
     ELSE {})
    \cup UNION { Identifiers(e.a[i]) : i \in 1..Len(e.a) }

extract_variable_names(formula) == Identifiers(formula) \ SAFE_FUNCTION_NAMES

ProbeNamespace(var_names) == [v \in var_names |-> FloatV(50, 1)]

\* The evaluation of validate_formula with every variable bound to 50.0.
ProbeEval(formula, var_names) == Eval(formula, ProbeNamespace(var_names))

Diagnostic(msg) == [tag |-> "diag", msg |-> msg]
UnboundLocalError == [tag |-> "raise", msg |-> "UnboundLocalError"]

\* After except ZeroDivisionError: pass, the check of the result reads the
\* local variable result, which the failed assignment never bound.
AfterZeroDivision == UnboundLocalError

validate_formula(formula, var_names) ==
    LET result == ProbeEval(formula, var_names)
    IN  IF ~CompilesAsExpression(formula) THEN Diagnostic("Syntax error")
        ELSE IF result.t = "exc" /\ result.x = "NameError"
        THEN Diagnostic("Unknown name")
        ELSE IF result.t = "exc" /\ result.x = "TypeError" THEN Diagnostic("Type error")
        ELSE IF result.t = "exc" /\ result.x = "ZeroDivisionError" THEN AfterZeroDivision
        ELSE IF result.t = "exc" THEN Diagnostic("Formula error")
        ELSE IF result.t # "num" THEN Diagnostic("Formula must produce a number")
        ELSE NoDiagnostic

\* ---------------------------------------- validate_formula, formula by formula
Leaves == { Name("Quiz_1"), Name("Quiz_2"), Num(0), Num(2), Num(50) }
Operators == {"+", "-", "*", "/"}
Callees == {"max", "abs", "round", "sum", "Quiz_2"}
AttributeNames == {"real", "imag", "is_integer", "foo"}

Arithmetic1 == { BinOp(op, l, r) : op \in Operators, l \in Leaves, r \in Leaves }
Calls1 ==
    { Call(fn, <<l>>) : fn \in Callees, l \in Leaves }
        \cup { Call(fn, <<l, r>>) : fn \in Callees, l \in Leaves, r \in Leaves }
Attributes1 ==
    { Attribute(l, attr) : l \in {Name("Quiz_1"), Name("Quiz_2")}, attr \in AttributeNames }
Expressions1 == Leaves \cup Arithmetic1 \cup Calls1 \cup Attributes1
Expressions2 ==
    { BinOp(op, l, r) : op \in {"+", "/"}, l \in {Name("Quiz_1"), Num(2)},
                        r \in Arithmetic1 \cup Attributes1 }
        \cup { Call("max", <<l, r>>) : l \in {Name("Quiz_1")}, r \in Arithmetic1 }
        \cup { Attribute(l, attr) : l \in Arithmetic1, attr \in {"real", "foo"} }
NamedExprs == { NamedExpr("y", v) : v \in Leaves \cup Arithmetic1 }
Statements ==
    { Assign("x", v) : v \in Leaves }
        \cup { Import("os") }
        \cup { Multi(l, r) : l \in Leaves, r \in Leaves }

Formulas == Expressions1 \cup Expressions2 \cup NamedExprs \cup Statements

InitFormula ==
    /\ IdleCodec /\ IdleLedger /\ IdleRun /\ IdleMore
    /\ f_pc = "start"
    /\ f_formula \in Formulas
    /\ f_var_names = {}
    /\ f_probe = NoValue
    /\ f_result = NoDiagnostic

\* var_names = extract_variable_names(formula); an empty list ends the command.
ExtractVariables ==
    /\ f_pc = "start"
    /\ f_var_names' = extract_variable_names(f_formula)
    /\ f_pc' = IF extract_variable_names(f_formula) = {} THEN "exit" ELSE "extracted"
    /\ UNCHANGED <<f_formula, f_probe, f_result>>
    /\ UNCHANGED nonFormulaVars

\* formula_error = validate_formula(formula, var_names)
ValidateFormula ==
    /\ f_pc = "extracted"
    /\ f_probe' = IF CompilesAsExpression(f_formula)
                  THEN ProbeEval(f_formula, f_var_names) ELSE NoValue
    /\ f_result' = validate_formula(f_formula, f_var_names)
    /\ f_pc' = "returned"
    /\ UNCHANGED <<f_formula, f_var_names>>
    /\ UNCHANGED nonFormulaVars

NextFormula == ExtractVariables \/ ValidateFormula

SpecFormula == InitFormula /\ [][NextFormula]_vars

\* ------------------------------------------------------------ claims C8, C9
RECURSIVE NodeKinds(_)
NodeKinds(e) == {e.k} \cup UNION { NodeKinds(e.a[i]) : i \in 1..Len(e.a) }

RECURSIVE CalledNames(_)
CalledNames(e) ==
    (IF e.k = "Call" THEN {e.id} ELSE {}) \cup UNION { CalledNames(e.a[i]) : i \in 1..Len(e.a) }

\* Arithmetic operators, calls of allowlisted functions and bare identifiers.
OnlyArithmetic(e) ==
    /\ NodeKinds(e) \subseteq {"Num", "Name", "BinOp", "Call"}
    /\ CalledNames(e) \subseteq SAFE_FUNCTION_NAMES

\* C8: validate_formula returns a diagnostic for every expression that
\* contains an assignment, an import, an attribute access or multi-statement
\* syntax, even when its probe evaluation yields a number; only arithmetic
\* operators, allowlisted function calls and bare identifiers are accepted.
C8_RejectsNonArithmetic ==
    (f_pc = "returned" /\ ~OnlyArithmetic(f_formula)) => f_result.tag = "diag"

\* What does hold: the statements (assignment, import, several statements) are
\* rejected as syntax errors, and so is every call of a name outside the
\* allowlist; an attribute that yields a number is accepted.
C8_RejectsStatements ==
    (f_pc = "returned"
        /\ (~CompilesAsExpression(f_formula)
              \/ ~(CalledNames(f_formula) \subseteq SAFE_FUNCTION_NAMES))) =>
        f_result.tag = "diag"

C8_AttributeAccepted ==
    /\ f_pc = "returned" /\ "Attribute" \in NodeKinds(f_formula)
    /\ f_result = NoDiagnostic

C8_NamedExprAccepted ==
    /\ f_pc = "returned" /\ "NamedExpr" \in NodeKinds(f_formula)
    /\ f_result = NoDiagnostic

\* C9: a division by zero raised by the probe evaluation is tolerated:
\* validate_formula returns None and raises nothing.
C9_ProbeZeroDivisionTolerated ==
    (f_pc = "returned" /\ f_probe = ExcV("ZeroDivisionError")) => f_result = NoDiagnostic

\* ------------------------------------------------- names of assignments
\* The characters that normalize_name folds into an underscore: [\s+\-*/]
IsSeparator(c) == IsSpace(c) \/ c \in {"+", "-", "*", "/"}

\* re.sub(r'[\s+\-*/]+', '_', name): each run of separators becomes one "_"
RECURSIVE Collapse(_)
Collapse(name) ==
    IF name = <<>> THEN <<>>
    ELSE IF ~IsSeparator(Head(name)) THEN <<Head(name)>> \o Collapse(Tail(name))
    ELSE IF Len(name) > 1 /\ IsSeparator(name[2]) THEN Collapse(Tail(name))
    ELSE <<"_">> \o Collapse(Tail(name))

\* .strip('_')
RECURSIVE StripUnderscores(_)
StripUnderscores(name) ==
    IF name # <<>> /\ Head(name) = "_" THEN StripUnderscores(Tail(name))
    ELSE IF name # <<>> /\ name[Len(name)] = "_"
    THEN StripUnderscores(SubSeq(name, 1, Len(name) - 1))
    ELSE name

\* The name without the final .strip('_').
normalize_without_strip(name) == Collapse(name)

normalize_name(name) == StripUnderscores(Collapse(name))

\* Python's  sub in text
Contains(sub, text) ==
    \E i \in 0..(Len(text) - Len(sub)) : SubSeq(text, i + 1, i + Len(sub)) = sub

\* The characters of the identifiers that the formulas of the runs use.
Spelling ==
    [ id \in {"Q_1", "Q_2", "Q", "_1", "Z", "x", "real"} |->
        IF id = "Q_1" THEN <<"Q", "_", "1">>
        ELSE IF id = "Q_2" THEN <<"Q", "_", "2">>
        ELSE IF id = "Q" THEN <<"Q">>
        ELSE IF id = "_1" THEN <<"_", "1">>
        ELSE IF id = "Z" THEN <<"Z">>
        ELSE IF id = "x" THEN <<"x">>
        ELSE <<"r", "e", "a", "l">> ]

Found(assignment) == [tag |-> "ok", error |-> "", assignment |-> assignment]
NoAssignment == [assignment_id |-> 0, title |-> <<>>, points_possible |-> None]
Exit(error) == [tag |-> "exit", error |-> error, assignment |-> NoAssignment]

\* The lookup that settles for the first match when there are several.
first_match(course, var_name) ==
    LET IsMatch(a) == Contains(normalize_name(var_name), normalize_name(a.title))
        matches == SelectSeq(course, IsMatch)
    IN  IF matches = <<>> THEN Exit("not found") ELSE Found(matches[1])

\* course is the list of the course's assignments, var_name a text.
get_assignment_normalized(course, var_name) ==
    LET normalized_var == normalize_name(var_name)
        IsMatch(a) == Contains(normalized_var, normalize_name(a.title))
        IsExact(a) == normalized_var = normalize_name(a.title)
        matches == SelectSeq(course, IsMatch)
        exact == SelectSeq(matches, IsExact)
    IN  IF matches = <<>> THEN Exit("not found")
        ELSE IF Len(matches) > 1 /\ Len(exact) # 1 THEN Exit("multiple match")
        ELSE IF Len(matches) > 1 THEN Found(exact[1])
        ELSE Found(matches[1])

\* The command without the check: nothing is ever reported.
no_duplicate_check(var_names, assignments) == <<>>

\* The first pair of variables, in the order of the dict, that are bound to
\* one assignment; <<>> when there is none.
check_duplicate_assignments(var_names, assignments) ==
    LET repeats == { j \in 1..Len(var_names) :
                       \E i \in 1..(j - 1) :
                          assignments[var_names[i]].assignment_id
                              = assignments[var_names[j]].assignment_id }
        j == CHOOSE k \in repeats : \A m \in repeats : k <= m
        i == CHOOSE k \in 1..(j - 1) :
                /\ assignments[var_names[k]].assignment_id
                       = assignments[var_names[j]].assignment_id
                /\ \A m \in 1..(k - 1) :
                      assignments[var_names[m]].assignment_id
                          # assignments[var_names[k]].assignment_id
    IN  IF repeats = {} THEN <<>> ELSE <<var_names[i], var_names[j]>>

\* ------------------------------------------------- scores as the formula sees them
\* A score of Canvas, a float, as a value of the evaluation.
ScoreValue(score) == FloatV(IF score.neg THEN -score.mant ELSE score.mant, Pow10(score.exp))

\* The fraction of the points, not scaled to a percentage.
fraction_of_points(score, points_possible) ==
    Arith("/", ScoreValue(score), ScoreValue(points_possible))

\* (submission.score / points_possible) * 100
Percentage(score, points_possible) ==
    Arith("*", Arith("/", ScoreValue(score), ScoreValue(points_possible)), IntV(100))

\* A result of the formula as the number that str() prints: the shortest
\* decimal, of at most FracDigits fractional digits.
FracDigits == 2

AsNumber(v) ==
    LET e == CHOOSE k \in 0..FracDigits :
                /\ (v.n * Pow10(k)) % v.d = 0
                /\ \A m \in 0..(k - 1) : (v.n * Pow10(m)) % v.d # 0
        m == (v.n * Pow10(e)) \div v.d
    IN  [kind |-> v.x, neg |-> m < 0, mant |-> IF m < 0 THEN -m ELSE m, exp |-> e]

\* One line of output: error(), warn() or info().
Msg(level, msg, about) == [level |-> level, msg |-> msg, about |-> about]

\* ------------------------------------------------- derive_assignment_score: inputs
Assignment(id, title, points_possible) ==
    [assignment_id |-> id, title |-> title, points_possible |-> points_possible]

Points(n) == PyFloat(FALSE, n, 0)

\* Courses with the assignments "Q 1", "Q-2" and "Avg": all worth 10 points,
\* or with a source assignment worth 0 points or without points.
Courses ==
    { <<Assignment(1, <<"Q", " ", "1">>, p1), Assignment(2, <<"Q", "-", "2">>, p2),
        Assignment(3, <<"A", "v", "g">>, Points(10))>> :
          <<p1, p2>> \in { <<Points(10), Points(10)>>, <<Points(10), Points(0)>>,
                           <<None, Points(10)>> } }

\* TARGET_ASSIGNMENT: one assignment, none, two.
TargetNames == { <<"A", "v", "g">>, <<"Z", "e", "d">>, <<"Q">> }

RunFormulas ==
    { BinOp("+", Name("Q_1"), Name("Q_2")),
      BinOp("/", Name("Q_1"), Name("Q_2")),
      BinOp("/", BinOp("+", Name("Q_1"), Name("Q_2")), Num(2)),
      Call("max", <<Name("Q_1"), Name("Q_2")>>),
      Name("Q_1"),
      BinOp("+", Num(1), Num(2)),
      Assign("x", Name("Q_1")),
      Call("sum", <<Name("Q_1"), Name("Q_2")>>),
      BinOp("+", Name("Q_1"), Name("Z")),
      BinOp("+", Name("Q"), Name("Q_2")),
      BinOp("+", Name("Q_1"), Name("_1")),
      BinOp("/", Name("Q_1"), BinOp("-", Name("Q_2"), Num(50))),
      Attribute(Name("Q_1"), "real") }

StudentIds == {1, 2}

\* target.get_submissions() yields the submissions in this order.
RECURSIVE InOrder(_)
InOrder(ids) ==
    IF ids = {} THEN <<>>
    ELSE LET least == CHOOSE u \in ids : \A w \in ids : u <= w
         IN  <<least>> \o InOrder(ids \ {least})

\* What Canvas holds for one student: the scores of "Q 1" and "Q-2", and the
\* score and the comments of the target submission.
Profile(q1, q2, score, comments) ==
    [q1 |-> q1, q2 |-> q2, score |-> score, comments |-> comments]

Profiles ==
    { Profile(Points(10), Points(5), None, <<>>),
      Profile(Points(5), Points(0), Points(8), <<Text(<<"o", "k">>)>>),
      Profile(Points(10), None, None, <<>>),
      Profile(None, None, None, <<>>),
      Profile(Points(5), Points(10), PyFloat(FALSE, 75, 1),
              <<Text(build_change_score_comment(Points(9), PyFloat(FALSE, 75, 1)))>>),
      Profile(Points(5), Points(5), Points(4),
              <<Text(Chars_change_score \o <<" ">> \o Chars_new
                         \o <<" ", "1", ".", "2", ".", "3">>)>>) }

NoLocals ==
    /\ r_target = 0 /\ r_var_names = <<>> /\ r_assignments = <<>> /\ r_user_scores = <<>>
    /\ r_computed = <<>> /\ r_skipped_count = 0 /\ r_i = 0
    /\ r_out = <<>> /\ r_calls = <<>>

InitDerive ==
    /\ r_cmd = "derive" /\ r_pc = "start"
    /\ r_dryrun \in BOOLEAN
    /\ r_use_last_assigned \in BOOLEAN
    /\ r_course \in Courses
    /\ r_target_assignment \in TargetNames
    /\ r_formula \in RunFormulas
    /\ \E profile \in [StudentIds -> Profiles] :
          /\ r_source_scores = << [u \in StudentIds |-> profile[u].q1],
                                  [u \in StudentIds |-> profile[u].q2] >>
          /\ r_submissions = [u \in StudentIds |->
                                [score |-> profile[u].score, comments |-> profile[u].comments]]
    /\ NoLocals
    /\ r_lines = <<>> /\ r_fetched = <<>> /\ r_canvas = <<>>

\* The score that assignment.get_submissions() reports for a student.
SourceScore(assignment_id, user_id) ==
    IF assignment_id \in DOMAIN r_source_scores
    THEN r_source_scores[assignment_id][user_id]
    ELSE r_submissions[user_id].score

runInputs ==
    <<r_cmd, r_dryrun, r_use_last_assigned, r_course, r_target_assignment, r_formula,
      r_source_scores, r_lines>>
dueState == <<r_fetched, r_canvas>>

Range(s) == { s[i] : i \in 1..Len(s) }

\* list(set(variables)): the set in one of its orders
Orderings(S) ==
    { q \in [1..Cardinality(S) -> S] : \A i, j \in 1..Cardinality(S) : q[i] = q[j] => i = j }

\* ------------------------------------------------- derive_assignment_score: steps
\* target = get_assignment_normalized(course, target_assignment)
GetTarget ==
    /\ r_cmd = "derive" /\ r_pc = "start"
    /\ LET got == get_assignment_normalized(r_course, r_target_assignment)
       IN  IF got.tag = "exit"
           THEN /\ r_pc' = "exit"
                /\ r_out' = Append(r_out, Msg("error", got.error, r_target_assignment))
                /\ UNCHANGED r_target
           ELSE /\ r_pc' = "extract"
                /\ r_target' = got.assignment.assignment_id
                /\ UNCHANGED r_out
    /\ UNCHANGED <<runInputs, dueState, r_calls, r_i, r_submissions, r_var_names,
                   r_assignments, r_user_scores, r_computed, r_skipped_count>>
    /\ UNCHANGED nonRunVars

\* var_names = extract_variable_names(formula); an empty list ends the command.
ExtractNames ==
    /\ r_cmd = "derive" /\ r_pc = "extract"
    /\ IF extract_variable_names(r_formula) = {}
       THEN /\ r_pc' = "exit"
            /\ r_out' = Append(r_out, Msg("error", "no variables", <<>>))
            /\ UNCHANGED r_var_names
       ELSE /\ r_var_names' \in Orderings(extract_variable_names(r_formula))
            /\ r_pc' = "validate"
            /\ UNCHANGED r_out
    /\ UNCHANGED <<runInputs, dueState, r_calls, r_i, r_submissions, r_target,
                   r_assignments, r_user_scores, r_computed, r_skipped_count>>
    /\ UNCHANGED nonRunVars

\* formula_error = validate_formula(formula, var_names); an exception that
\* validate_formula raises ends the command with a traceback.
CheckFormula ==
    /\ r_cmd = "derive" /\ r_pc = "validate"
    /\ LET formula_error == validate_formula(r_formula, Range(r_var_names))
       IN  IF formula_error.tag = "raise"
           THEN /\ r_pc' = "crashed"
                /\ r_out' = Append(r_out, Msg("traceback", formula_error.msg, <<>>))
           ELSE IF formula_error.tag = "diag"
           THEN /\ r_pc' = "exit"
                /\ r_out' = Append(r_out, Msg("error", "invalid formula", formula_error.msg))
           ELSE /\ r_pc' = "resolve"
                /\ r_out' = r_out \o <<Msg("info", "formula", r_formula),
                                       Msg("info", "variables", r_var_names)>>
    /\ UNCHANGED <<runInputs, dueState, r_calls, r_i, r_submissions, r_target, r_var_names,
                   r_assignments, r_user_scores, r_computed, r_skipped_count>>
    /\ UNCHANGED nonRunVars

\* for var_name in var_names: assignments[var_name] = get_assignment_normalized(...)
ResolveVariables ==
    /\ r_cmd = "derive" /\ r_pc = "resolve"
    /\ LET got == [v \in Range(r_var_names) |->
                      get_assignment_normalized(r_course, Spelling[v])]
           failing == { i \in 1..Len(r_var_names) : got[r_var_names[i]].tag = "exit" }
           stop == IF failing = {} THEN Len(r_var_names) + 1
                   ELSE CHOOSE i \in failing : \A j \in failing : i <= j
           bound == [i \in 1..(stop - 1) |->
                        Msg("info", "variable", <<r_var_names[i],
                                                  got[r_var_names[i]].assignment.title>>)]
       IN  /\ r_assignments' = [v \in { r_var_names[i] : i \in 1..(stop - 1) } |->
                                   got[v].assignment]
           /\ IF failing # {}
              THEN /\ r_pc' = "exit"
                   /\ r_out' = r_out \o bound
                                 \o <<Msg("error", got[r_var_names[stop]].error,
                                          r_var_names[stop])>>
              ELSE /\ r_pc' = "duplicates"
                   /\ r_out' = r_out \o bound
    /\ UNCHANGED <<runInputs, dueState, r_calls, r_i, r_submissions, r_target, r_var_names,
                   r_user_scores, r_computed, r_skipped_count>>
    /\ UNCHANGED nonRunVars

\* dup_error = check_duplicate_assignments(assignments)
CheckDuplicates ==
    /\ r_cmd = "derive" /\ r_pc = "duplicates"
    /\ LET dup_error == check_duplicate_assignments(r_var_names, r_assignments)
       IN  IF dup_error # <<>>
           THEN /\ r_pc' = "exit"
                /\ r_out' = Append(r_out, Msg("error", "inconsistent naming", dup_error))
                /\ UNCHANGED r_i
           ELSE /\ r_pc' = "fetch"
                /\ r_i' = 1
                /\ UNCHANGED r_out
    /\ UNCHANGED <<runInputs, dueState, r_calls, r_submissions, r_target, r_var_names,
                   r_assignments, r_user_scores, r_computed, r_skipped_count>>
    /\ UNCHANGED nonRunVars

\* The command without the check of the points possible.
NeverNoPoints(points_possible) == FALSE

\* if not points_possible or points_possible == 0
NoPointsPossible(points_possible) == IsNone(points_possible) \/ points_possible.mant = 0

\* One turn of  for var_name, assignment in assignments.items():  the check of
\* points_possible, then the percentages of the students who have a score.
\* After the last turn the names of the students are read (user_name is the
\* user's id in this model) and the compute loop starts.
FetchScores ==
    /\ r_cmd = "derive" /\ r_pc = "fetch"
    /\ LET var_name == r_var_names[r_i]
           assignment == r_assignments[var_name]
           points_possible == assignment.points_possible
           scored == { u \in StudentIds :
                         ~IsNone(SourceScore(assignment.assignment_id, u)) }
           before(u) == IF u \in DOMAIN r_user_scores THEN r_user_scores[u] ELSE <<>>
           percentage(u) == Percentage(SourceScore(assignment.assignment_id, u),
                                       points_possible)
       IN  IF NoPointsPossible(points_possible)
           THEN /\ r_pc' = "exit"
                /\ r_out' = Append(r_out, Msg("error", "no points possible", assignment.title))
                /\ UNCHANGED <<r_user_scores, r_i>>
           ELSE /\ r_user_scores' =
                      [u \in DOMAIN r_user_scores \cup scored |->
                          IF u \in scored THEN (var_name :> percentage(u)) @@ before(u)
                          ELSE before(u)]
                /\ IF r_i < Len(r_var_names)
                   THEN r_i' = r_i + 1 /\ UNCHANGED r_pc
                   ELSE r_i' = 1 /\ r_pc' = "compute"
                /\ UNCHANGED r_out
    /\ UNCHANGED <<runInputs, dueState, r_calls, r_submissions, r_target, r_var_names,
                   r_assignments, r_computed, r_skipped_count>>
    /\ UNCHANGED nonRunVars

\* The same turn with a student without any source score passed over and not
\* counted.
ComputeScoreSkipUncounted ==
    /\ r_cmd = "derive" /\ r_pc = "compute" /\ r_i <= Len(InOrder(StudentIds))
    /\ LET user_id == InOrder(StudentIds)[r_i]
           submission == r_submissions[user_id]
           scores == IF user_id \in DOMAIN r_user_scores THEN r_user_scores[user_id]
                     ELSE <<>>
           IsMissing(var) == var \notin DOMAIN scores
           missing == SelectSeq(r_var_names, IsMissing)
           result == Eval(r_formula, scores)
           found == IF r_use_last_assigned
                    THEN find_last_manual_score(submission.score, submission.comments)
                    ELSE [tag |-> "ok", value |-> submission.score]
       IN  IF user_id \notin DOMAIN r_user_scores
           THEN UNCHANGED <<r_out, r_computed, r_skipped_count>>
           ELSE IF missing # <<>>
           THEN /\ r_out' = Append(r_out, Msg("warn", "missing", <<user_id, missing>>))
                /\ r_skipped_count' = r_skipped_count + 1
                /\ UNCHANGED r_computed
           ELSE IF result.t = "exc" /\ result.x = "ZeroDivisionError"
           THEN /\ r_out' = Append(r_out, Msg("warn", "division by zero", <<user_id>>))
                /\ r_skipped_count' = r_skipped_count + 1
                /\ UNCHANGED r_computed
           ELSE IF result.t = "exc" \/ found.tag = "raise"
           THEN /\ r_out' = Append(r_out, Msg("warn", "formula error", <<user_id>>))
                /\ r_skipped_count' = r_skipped_count + 1
                /\ UNCHANGED r_computed
           ELSE /\ r_computed' = Append(r_computed,
                                        [user_id |-> user_id, result |-> result,
                                         previous_score |-> found.value, scores |-> scores])
                /\ UNCHANGED <<r_out, r_skipped_count>>
    /\ r_i' = r_i + 1
    /\ UNCHANGED <<runInputs, dueState, r_pc, r_calls, r_submissions, r_target, r_var_names,
                   r_assignments, r_user_scores>>
    /\ UNCHANGED nonRunVars

\* One turn of  for submission in target.get_submissions(include=include):
ComputeScore ==
    /\ r_cmd = "derive" /\ r_pc = "compute" /\ r_i <= Len(InOrder(StudentIds))
    /\ LET user_id == InOrder(StudentIds)[r_i]
           submission == r_submissions[user_id]
           scores == IF user_id \in DOMAIN r_user_scores THEN r_user_scores[user_id]
                     ELSE <<>>
           IsMissing(var) == var \notin DOMAIN scores
           missing == SelectSeq(r_var_names, IsMissing)
           result == Eval(r_formula, scores)
           found == IF r_use_last_assigned
                    THEN find_last_manual_score(submission.score, submission.comments)
                    ELSE [tag |-> "ok", value |-> submission.score]
       IN  IF user_id \notin DOMAIN r_user_scores
           THEN /\ r_skipped_count' = r_skipped_count + 1
                /\ UNCHANGED <<r_out, r_computed>>
           ELSE IF missing # <<>>
           THEN /\ r_out' = Append(r_out, Msg("warn", "missing", <<user_id, missing>>))
                /\ r_skipped_count' = r_skipped_count + 1
                /\ UNCHANGED r_computed
           ELSE IF result.t = "exc" /\ result.x = "ZeroDivisionError"
           THEN /\ r_out' = Append(r_out, Msg("warn", "division by zero", <<user_id>>))
                /\ r_skipped_count' = r_skipped_count + 1
                /\ UNCHANGED r_computed
           ELSE IF result.t = "exc" \/ found.tag = "raise"
           THEN /\ r_out' = Append(r_out, Msg("warn", "formula error", <<user_id>>))
                /\ r_skipped_count' = r_skipped_count + 1
                /\ UNCHANGED r_computed
           ELSE /\ r_computed' = Append(r_computed,
                                        [user_id |-> user_id, result |-> result,
                                         previous_score |-> found.value, scores |-> scores])
                /\ UNCHANGED <<r_out, r_skipped_count>>
    /\ r_i' = r_i + 1
    /\ UNCHANGED <<runInputs, dueState, r_pc, r_calls, r_submissions, r_target, r_var_names,
                   r_assignments, r_user_scores>>
    /\ UNCHANGED nonRunVars

\* The command that updates the grades whatever --dryrun says.
AlwaysCommit(dryrun) == "commit"

\* if dryrun: ... else: ...
AfterCompute(dryrun) == IF dryrun THEN "report" ELSE "commit"

\* info(f"Computed {len(computed_scores)} scores, skipped {skipped_count}")
Summarize ==
    /\ r_cmd = "derive" /\ r_pc = "compute" /\ r_i > Len(InOrder(StudentIds))
    /\ r_out' = Append(r_out, Msg("info", "computed", <<Len(r_computed), r_skipped_count>>))
    /\ r_pc' = AfterCompute(r_dryrun)
    /\ r_i' = 1
    /\ UNCHANGED <<runInputs, dueState, r_calls, r_submissions, r_target, r_var_names,
                   r_assignments, r_user_scores, r_computed, r_skipped_count>>
    /\ UNCHANGED nonRunVars

\* The dry run: one line for each computed score, then the warning.
ReportDryRun ==
    /\ r_cmd = "derive" /\ r_pc = "report"
    /\ r_out' = r_out
          \o [k \in 1..Len(r_computed) |->
                 Msg("info", "score",
                     <<r_computed[k].user_id, AsNumber(r_computed[k].result),
                       r_computed[k].scores,
                       build_change_score_comment(r_computed[k].previous_score,
                                                  AsNumber(r_computed[k].result))>>)]
          \o <<Msg("warn", "dryrun", <<>>)>>
    /\ r_pc' = "done"
    /\ UNCHANGED <<runInputs, dueState, r_calls, r_i, r_submissions, r_target, r_var_names,
                   r_assignments, r_user_scores, r_computed, r_skipped_count>>
    /\ UNCHANGED nonRunVars

\* One turn of the commit loop: submission.edit(posted_grade, text_comment).
\* Canvas takes the edit or the call raises; nothing catches the exception.
CommitScore ==
    /\ r_cmd = "derive" /\ r_pc = "commit" /\ r_i <= Len(r_computed)
    /\ LET computed == r_computed[r_i]
           score == AsNumber(computed.result)
           comment == build_change_score_comment(computed.previous_score, score)
       IN  \E ok \in BOOLEAN :
              /\ r_calls' = Append(r_calls,
                                   [op |-> "submission.edit", user_id |-> computed.user_id,
                                    posted_grade |-> score, text_comment |-> comment,
                                    ok |-> ok])
              /\ IF ok
                 THEN /\ r_submissions' =
                            [r_submissions EXCEPT ![computed.user_id] =
                                [score |-> StoredScore(score),
                                 comments |-> Append(@.comments, Text(comment))]]
                      /\ r_i' = r_i + 1
                      /\ UNCHANGED <<r_pc, r_out>>
                 ELSE /\ r_pc' = "crashed"
                      /\ r_out' = Append(r_out, Msg("traceback", "submission.edit",
                                                    <<computed.user_id>>))
                      /\ UNCHANGED <<r_submissions, r_i>>
    /\ UNCHANGED <<runInputs, dueState, r_target, r_var_names, r_assignments, r_user_scores,
                   r_computed, r_skipped_count>>
    /\ UNCHANGED nonRunVars

\* info(f"Updated {len(computed_scores)} grades")
ReportUpdated ==
    /\ r_cmd = "derive" /\ r_pc = "commit" /\ r_i > Len(r_computed)
    /\ r_out' = Append(r_out, Msg("info", "updated", <<Len(r_computed)>>))
    /\ r_pc' = "done"
    /\ UNCHANGED <<runInputs, dueState, r_calls, r_i, r_submissions, r_target, r_var_names,
                   r_assignments, r_user_scores, r_computed, r_skipped_count>>
    /\ UNCHANGED nonRunVars

\* ------------------------------------------------- set_due_dates: the dates file
\* A line of the dates file is a sequence of characters; a word such as "due"
\* or a date such as "D1" (a text that strptime takes) stands as one character.
RECURSIVE Split(_, _)
Split(text, sep) ==
    IF sep \notin Range(text) THEN <<text>>
    ELSE LET i == CHOOSE k \in 1..Len(text) :
                     text[k] = sep /\ \A m \in 1..(k - 1) : text[m] # sep
         IN  <<SubSeq(text, 1, i - 1)>> \o Split(SubSeq(text, i + 1, Len(text)), sep)

ValidDates == {"D1", "D2"}
NoDate == [present |-> FALSE, iso |-> ""]
Iso(date) == [present |-> TRUE, iso |-> date]

\* None for an empty text, the ISO time for a text of the format
\* %Y-%m-%d-%H:%M, ValueError for any other text.
parse_date(date_str) ==
    IF date_str = <<>> THEN [tag |-> "ok", value |-> NoDate]
    ELSE IF Len(date_str) = 1 /\ date_str[1] \in ValidDates
    THEN [tag |-> "ok", value |-> Iso(date_str[1])]
    ELSE [tag |-> "raise", value |-> NoDate]

DateKeys == { <<"available">>, <<"due">>, <<"until">> }
DateField(key) ==
    IF key = <<"available">> THEN "unlock_at"
    ELSE IF key = <<"due">> THEN "due_at" ELSE "lock_at"

\* The loop of parse_date_entries over the entries, result the dict so far.
RECURSIVE ParseEntries(_, _)
ParseEntries(entries, result) ==
    IF entries = <<>> THEN [tag |-> "ok", dates |-> result]
    ELSE LET entry == Head(entries)
             halves == Split(entry, "=")
             key == Strip(halves[1])
             value == Strip(SubSeq(entry, Len(halves[1]) + 2, Len(entry)))
             parsed == parse_date(value)
         IN  IF "=" \notin Range(entry) \/ key \notin DateKeys
             THEN ParseEntries(Tail(entries), result)
             ELSE IF parsed.tag = "raise" THEN [tag |-> "raise", dates |-> result]
             ELSE ParseEntries(Tail(entries), (DateField(key) :> parsed.value) @@ result)

parse_date_entries(entries_str) ==
    IF Strip(entries_str) = <<>> THEN [tag |-> "ok", dates |-> <<>>]
    ELSE ParseEntries(Split(entries_str, ","), <<>>)

\* (assignment_name, section_name); section_name is None without brackets.
parse_assignment_name(name) ==
    IF name # <<>> /\ name[Len(name)] = "]" /\ "[" \in Range(name)
    THEN LET bracket_start == CHOOSE i \in 1..Len(name) :
                                 name[i] = "[" /\ \A j \in (i + 1)..Len(name) : name[j] # "["
         IN  [assignment_name |-> Strip(SubSeq(name, 1, bracket_start - 1)),
              section_name |-> Text(Strip(SubSeq(name, bracket_start + 1, Len(name) - 1)))]
    ELSE [assignment_name |-> name, section_name |-> AbsentText]

\* ------------------------------------------------- set_due_dates: inputs
MaxLines == 2

NoDates == [unlock_at |-> NoDate, due_at |-> NoDate, lock_at |-> NoDate]
Override(id, course_section_id, dates) ==
    [id |-> id, course_section_id |-> course_section_id, dates |-> dates]

\* The sections of the course, name and id.
Sections == << [name |-> <<"A">>, id |-> 11], [name |-> <<"B">>, id |-> 12] >>
NoSection == 0
SectionId(section_name) ==
    IF \E k \in 1..Len(Sections) : Sections[k].name = section_name
    THEN Sections[CHOOSE k \in 1..Len(Sections) : Sections[k].name = section_name].id
    ELSE NoSection

\* The assignments "H" and "Q" as Canvas holds them: without an override, or
\* "H" with an override for section A.
CanvasStates ==
    { [name \in { <<"H">>, <<"Q">> } |->
          [dates |-> NoDates,
           overrides |-> IF name = <<"H">> THEN overrides ELSE <<>>]] :
        overrides \in { <<>>, <<Override(101, 11, NoDates)>> } }

DateLines ==
    { <<>>, <<" ">>,
      <<"H">>,
      <<"H", "\t", "due", "=", "D1">>,
      <<"H", " ", "[", "A", "]", "\t", "due", "=", "D1">>,
      <<"H", " ", "[", "B", "]", "\t", "due", "=", "D2", ",", "until", "=", "D2">>,
      <<"Z", "\t", "due", "=", "D1">>,
      <<"H", " ", "[", "C", "]", "\t", "due", "=", "D1">>,
      <<"H", "\t", "bogus">>,
      <<"H", "\t", "due", "=", "soon">>,
      <<"H", " ", "[", "]", "\t", "due", "=", "D1">>,
      <<"Q", "[", " ", "A", "]", "\t", "due", "=", ",", " ", "until", " ", "=", " ", "D2">>,
      <<" ", "H", " ", "\t", "available", "=", "D1", "\n">> }

InitDueDates ==
    /\ r_cmd = "set_due_dates" /\ r_pc = "start"
    /\ r_dryrun \in BOOLEAN
    /\ r_lines \in UNION { [1..n -> DateLines] : n \in 1..MaxLines }
    /\ r_canvas \in CanvasStates
    /\ r_fetched = <<>>
    /\ NoLocals
    /\ r_use_last_assigned = FALSE /\ r_course = <<>> /\ r_target_assignment = <<>>
    /\ r_formula = Num(0) /\ r_submissions = <<>> /\ r_source_scores = <<>>

\* ------------------------------------------------- set_due_dates: steps
deriveState ==
    <<r_use_last_assigned, r_course, r_target_assignment, r_formula, r_submissions,
      r_source_scores, r_target, r_var_names, r_assignments, r_user_scores, r_computed,
      r_skipped_count>>

\* assignments = {a.name: a for a in course.get_assignments(include=['overrides'])}
\* and the sections of the course
FetchAssignments ==
    /\ r_cmd = "set_due_dates" /\ r_pc = "start"
    /\ r_fetched' = r_canvas
    /\ r_out' = Append(r_out, Msg("info", "found sections", Len(Sections)))
    /\ r_pc' = "lines"
    /\ r_i' = 1
    /\ UNCHANGED <<r_cmd, r_dryrun, r_lines, r_canvas, r_calls, deriveState>>
    /\ UNCHANGED nonRunVars

Merge(dates, date_entries) ==
    [field \in DOMAIN dates |->
        IF field \in DOMAIN date_entries THEN date_entries[field] ELSE dates[field]]

\* What Canvas holds after a call of assignment.edit, edit_override or
\* create_override.
Applied(canvas, call) ==
    LET held == canvas[call.assignment]
    IN  IF call.op = "assignment.edit"
        THEN [canvas EXCEPT ![call.assignment].dates = Merge(@, call.dates)]
        ELSE IF call.op = "edit_override"
        THEN [canvas EXCEPT ![call.assignment].overrides =
                 [k \in 1..Len(@) |->
                     IF @[k].id = call.override
                     THEN [@[k] EXCEPT !.dates = Merge(@, call.dates)] ELSE @[k]]]
        ELSE [canvas EXCEPT ![call.assignment].overrides =
                 Append(@, Override(call.override, call.section,
                                    Merge(NoDates, call.dates)))]

\* The id Canvas gives to a new override.
NewOverrideId(canvas) ==
    LET ids == UNION { { canvas[a].overrides[k].id : k \in 1..Len(canvas[a].overrides) } :
                       a \in DOMAIN canvas }
    IN  IF ids = {} THEN 101 ELSE 1 + CHOOSE i \in ids : \A j \in ids : j <= i

RemoteCall(op, assignment, override, section, dates) ==
    [op |-> op, assignment |-> assignment, override |-> override, section |-> section,
     dates |-> dates]

\* One turn of  for line in dates_file:  what it prints and the call it makes.
LineEffect(text, fetched, canvas, dryrun) ==
    LET line == Strip(text)
        parts == Split(line, "\t")
        raw_name == parts[1]
        date_entries == parse_date_entries(parts[2])
        parsed_name == parse_assignment_name(raw_name)
        assignment_name == parsed_name.assignment_name
        section_name == parsed_name.section_name
        assignment == fetched[assignment_name]
        section_id == SectionId(section_name.chars)
        matching == { k \in 1..Len(assignment.overrides) :
                         assignment.overrides[k].course_section_id = section_id }
        existing_override ==
            assignment.overrides[CHOOSE k \in matching : \A m \in matching : k <= m]
        Effect(out, calls) == [raised |-> FALSE, out |-> out, calls |-> calls]
    IN  IF line = <<>> THEN Effect(<<>>, <<>>)
        ELSE IF Len(parts) < 2 THEN Effect(<<Msg("warn", "malformed line", line)>>, <<>>)
        ELSE IF date_entries.tag = "raise"
        THEN [raised |-> TRUE, out |-> <<Msg("traceback", "ValueError", line)>>,
              calls |-> <<>>]
        ELSE IF assignment_name \notin DOMAIN fetched
        THEN Effect(<<Msg("error", "assignment not found", assignment_name)>>, <<>>)
        ELSE IF DOMAIN date_entries.dates = {}
        THEN Effect(<<Msg("info", "no dates", raw_name)>>, <<>>)
        ELSE IF section_name.present /\ section_name.chars # <<>>
        THEN IF section_id = NoSection
             THEN Effect(<<Msg("error", "section not found", section_name.chars)>>, <<>>)
             ELSE IF dryrun
             THEN IF matching # {}
                  THEN Effect(<<Msg("info", "would update override", raw_name)>>, <<>>)
                  ELSE Effect(<<Msg("info", "would create override", raw_name)>>, <<>>)
             ELSE IF matching # {}
             THEN Effect(<<Msg("info", "updating override", raw_name)>>,
                         <<RemoteCall("edit_override", assignment_name,
                                      existing_override.id, section_id,
                                      date_entries.dates)>>)
             ELSE Effect(<<Msg("info", "creating override", raw_name)>>,
                         <<RemoteCall("create_override", assignment_name,
                                      NewOverrideId(canvas), section_id,
                                      date_entries.dates)>>)
        ELSE IF dryrun
        THEN Effect(<<Msg("info", "would update", assignment_name)>>, <<>>)
        ELSE Effect(<<Msg("info", "updating", assignment_name)>>,
                    <<RemoteCall("assignment.edit", assignment_name, 0, NoSection,
                                 date_entries.dates)>>)

ProcessLine ==
    /\ r_cmd = "set_due_dates" /\ r_pc = "lines" /\ r_i <= Len(r_lines)
    /\ LET effect == LineEffect(r_lines[r_i], r_fetched, r_canvas, r_dryrun)
       IN  /\ r_out' = r_out \o effect.out
           /\ r_calls' = r_calls \o effect.calls
           /\ r_canvas' = IF effect.calls = <<>> THEN r_canvas
                          ELSE Applied(r_canvas, effect.calls[1])
           /\ IF effect.raised
              THEN r_pc' = "crashed" /\ UNCHANGED r_i
              ELSE r_i' = r_i + 1 /\ UNCHANGED r_pc
    /\ UNCHANGED <<r_cmd, r_dryrun, r_lines, r_fetched, deriveState>>
    /\ UNCHANGED nonRunVars

\* the end of the dates file
EndOfFile ==
    /\ r_cmd = "set_due_dates" /\ r_pc = "lines" /\ r_i > Len(r_lines)
    /\ r_pc' = "done"
    /\ UNCHANGED <<r_cmd, r_dryrun, r_lines, r_fetched, r_canvas, r_out, r_calls, r_i,
                   deriveState>>
    /\ UNCHANGED nonRunVars

NextDueDates == FetchAssignments \/ ProcessLine \/ EndOfFile

\* ------------------------------------------------- the two commands
InitRun == IdleCodec /\ IdleLedger /\ IdleFormula /\ IdleMore /\ (InitDerive \/ InitDueDates)

NextRun ==
    \/ GetTarget \/ ExtractNames \/ CheckFormula \/ ResolveVariables \/ CheckDuplicates
    \/ FetchScores \/ ComputeScore \/ Summarize \/ ReportDryRun \/ CommitScore
    \/ ReportUpdated
    \/ FetchAssignments \/ ProcessLine \/ EndOfFile

SpecRun == InitRun /\ [][NextRun]_vars

\* ------------------------------------------------------------ claims C4..C7
\* The fatal input errors of derive_assignment_score, read off the arguments
\* and the course: the target or a variable is not found or matches several
\* assignments, the formula has no variable or is rejected by validation, two
\* variables are bound to one assignment, a variable's assignment has no
\* points possible.
FatalInput ==
    LET names == extract_variable_names(r_formula)
        bound == [v \in names |-> get_assignment_normalized(r_course, Spelling[v])]
    IN  \/ get_assignment_normalized(r_course, r_target_assignment).tag = "exit"
        \/ names = {}
        \/ validate_formula(r_formula, names).tag = "diag"
        \/ \E v \in names : bound[v].tag = "exit"
        \/ \E v, w \in names :
              v # w /\ bound[v].assignment.assignment_id = bound[w].assignment.assignment_id
        \/ \E v \in names :
              \/ IsNone(bound[v].assignment.points_possible)
              \/ bound[v].assignment.points_possible.mant = 0

\* C4: a run of derive_assignment_score that ends with a fatal input error has
\* issued no submission edit, in dry-run and in commit mode; and a run whose
\* input has one of these errors never gets to the compute loop, the report
\* or the commit loop, so it never issues an edit.
C4_FatalErrorsBeforeMutation ==
    r_cmd = "derive" =>
        /\ r_pc = "exit" => (FatalInput /\ r_calls = <<>>)
        /\ FatalInput => (r_calls = <<>> /\ r_pc \notin {"compute", "report", "commit", "done"})

\* A commit run that passed every earlier check and ended on the last one, the
\* points possible of the second variable's assignment.
C4_ExitOnNoPoints ==
    /\ r_cmd = "derive" /\ r_pc = "exit" /\ ~r_dryrun
    /\ r_out[Len(r_out)].msg = "no points possible"
    /\ r_i = 2
    /\ r_user_scores # <<>>

\* C5: in commit mode a write is attempted for every computed student, also
\* after the write of an earlier student has failed.
C5_WritesIndependent ==
    (r_cmd = "derive" /\ ~r_dryrun /\ r_pc \in {"done", "crashed"}) =>
        \A k \in 1..Len(r_computed) :
            \E c \in 1..Len(r_calls) : r_calls[c].user_id = r_computed[k].user_id

\* What the code does keep: without a failed write every computed student is
\* written, in the order of the compute loop.
C5_AllWrittenWithoutFailure ==
    (r_cmd = "derive" /\ ~r_dryrun /\ r_pc = "done") =>
        /\ Len(r_calls) = Len(r_computed)
        /\ \A k \in 1..Len(r_calls) :
              r_calls[k].ok /\ r_calls[k].user_id = r_computed[k].user_id

\* C6: a dry run of derive_assignment_score or of set_due_dates issues no
\* submission edit, no assignment edit, no override creation and no override
\* edit, and leaves what Canvas holds as it is.
C6_DryRunNeverMutates ==
    [][r_dryrun => (r_calls' = <<>> /\ r_submissions' = r_submissions
                        /\ r_canvas' = r_canvas)]_vars

\* A dry run of derive_assignment_score that reported a score for both students.
C6_DryRunReported ==
    /\ r_cmd = "derive" /\ r_dryrun /\ r_pc = "done" /\ Len(r_computed) = 2
    /\ r_out[Len(r_out)].msg = "dryrun"

\* A dry run of set_due_dates to its end, over a line that would create an
\* override and a line that would update the assignment.
C6_DueDatesDryRun ==
    /\ r_cmd = "set_due_dates" /\ r_dryrun /\ r_pc = "done"
    /\ \E i \in 1..Len(r_out) : r_out[i].msg = "would create override"
    /\ \E i \in 1..Len(r_out) : r_out[i].msg = "would update"

\* A student has every input and the formula evaluates for them.
Eligible(user_id) ==
    LET percentages ==
            [v \in Range(r_var_names) |->
                Percentage(SourceScore(r_assignments[v].assignment_id, user_id),
                           r_assignments[v].points_possible)]
    IN  /\ \A v \in Range(r_var_names) :
              ~IsNone(SourceScore(r_assignments[v].assignment_id, user_id))
        /\ Eval(r_formula, percentages).t = "num"

Written == { r_calls[c].user_id : c \in { k \in 1..Len(r_calls) : r_calls[k].ok } }

\* C7: at the end of a commit run the written submissions are exactly those of
\* the students who have every input and for whom the formula evaluates.
C7_WrittenExactlyEligible ==
    (r_cmd = "derive" /\ ~r_dryrun /\ (r_pc = "done" \/ r_calls # <<>>)
        /\ r_pc \in {"done", "crashed"}) =>
        Written = { u \in StudentIds : Eligible(u) }

\* The half that holds: an edit is only ever issued for such a student, with
\* the value of the formula.
C7_WrittenOnlyEligible ==
    r_cmd = "derive" =>
        \A c \in 1..Len(r_calls) :
            /\ Eligible(r_calls[c].user_id)
            /\ r_calls[c].posted_grade
                   = AsNumber(Eval(r_formula, r_user_scores[r_calls[c].user_id]))

\* Exactly those students are written when no write fails and the ledger is
\* not read.
C7_ExactWithoutLedger ==
    (r_cmd = "derive" /\ ~r_dryrun /\ ~r_use_last_assigned /\ r_pc = "done") =>
        Written = { u \in StudentIds : Eligible(u) }

\* A finished commit run that wrote nothing for a student who has every input
\* and whose formula evaluates: the ledger comment made float() raise.
C7_EligibleSkipped ==
    /\ r_cmd = "derive" /\ ~r_dryrun /\ r_pc = "done"
    /\ \E u \in StudentIds : Eligible(u) /\ u \notin Written

\* ================================== find_last_manual_score, statement by statement
MaxComments == 3

Score(n) == PyFloat(FALSE, n, 0)

\* The score Canvas holds for the submission when the function is called.
WalkCurrent == { None, Score(85), Score(90), Score(95) }

\* Comment texts of a submission: records as the tool writes them, a remark,
\* a comment without text and a text whose numeric field float() refuses.
WalkRecordTexts ==
    { Text(build_change_score_comment(previous, new)) :
          previous \in { None, Score(85), Score(88), Score(90) },
          new \in { Score(90), Score(95) } }

Remark == Text(<<"o", "k">>)
Malformed == Text(Chars_change_score \o <<" ">> \o Chars_new \o <<" ", "1", ".", "2", ".", "3">>)

WalkTexts == WalkRecordTexts \cup { Remark, AbsentText, Malformed }

WalkComments == UNION { [1..n -> WalkTexts] : n \in 0..MaxComments }

InitWalk ==
    /\ IdleButWalk
    /\ w_pc = "parse"
    /\ w_current_score \in WalkCurrent
    /\ w_comments \in WalkComments
    /\ w_parsed = <<>>
    /\ w_i = 1
    /\ w_score_to_find = None
    /\ w_result = None

\* One turn of  for c in comments  (lines 173-177).
ParseComment ==
    /\ w_pc = "parse" /\ w_i <= Len(w_comments)
    /\ LET result == parse_change_score_comment(w_comments[w_i])
       IN  IF result.tag = "raise"
           THEN /\ w_pc' = "raised"
                /\ UNCHANGED <<w_parsed, w_i>>
           ELSE /\ w_parsed' = IF result.tag = "ok" THEN Append(w_parsed, result) ELSE w_parsed
                /\ w_i' = w_i + 1
                /\ UNCHANGED w_pc
    /\ UNCHANGED <<w_current_score, w_comments, w_score_to_find, w_result>>
    /\ UNCHANGED nonWalkVars

\* Lines 179-191: the three early returns, or the start of the walk.
CheckLatest ==
    /\ w_pc = "parse" /\ w_i = Len(w_comments) + 1
    /\ IF w_parsed = <<>>
       THEN /\ w_result' = w_current_score
            /\ w_pc' = "done"
            /\ UNCHANGED <<w_score_to_find, w_i>>
       ELSE LET latest == w_parsed[Len(w_parsed)]
            IN  IF ~PyEq(w_current_score, latest.new)
                THEN /\ w_result' = w_current_score
                     /\ w_pc' = "done"
                     /\ UNCHANGED <<w_score_to_find, w_i>>
                ELSE /\ w_score_to_find' = latest.previous
                     /\ IF IsNone(latest.previous)
                        THEN /\ w_result' = None
                             /\ w_pc' = "done"
                             /\ UNCHANGED w_i
                        ELSE /\ w_i' = Len(w_parsed) - 1
                             /\ w_pc' = "walk"
                             /\ UNCHANGED w_result
    /\ UNCHANGED <<w_current_score, w_comments, w_parsed>>
    /\ UNCHANGED nonWalkVars

\* The walk takes every earlier record for a link of the chain (what the loop
\* would do without the test of line 195).
WalkStepNoSkip ==
    /\ w_pc = "walk" /\ w_i >= 1
    /\ w_score_to_find' = w_parsed[w_i].previous
    /\ IF IsNone(w_parsed[w_i].previous)
       THEN /\ w_result' = None
            /\ w_pc' = "done"
            /\ UNCHANGED w_i
       ELSE /\ w_i' = w_i - 1
            /\ UNCHANGED <<w_pc, w_result>>
    /\ UNCHANGED <<w_current_score, w_comments, w_parsed>>
    /\ UNCHANGED nonWalkVars

\* One turn of  for prev, new in reversed(parsed[:-1])  (lines 194-198).
WalkStep ==
    /\ w_pc = "walk" /\ w_i >= 1
    /\ IF PyEq(w_parsed[w_i].new, w_score_to_find)
       THEN /\ w_score_to_find' = w_parsed[w_i].previous
            /\ IF IsNone(w_parsed[w_i].previous)
               THEN /\ w_result' = None
                    /\ w_pc' = "done"
                    /\ UNCHANGED w_i
               ELSE /\ w_i' = w_i - 1
                    /\ UNCHANGED <<w_pc, w_result>>
       ELSE /\ w_i' = w_i - 1
            /\ UNCHANGED <<w_pc, w_result, w_score_to_find>>
    /\ UNCHANGED <<w_current_score, w_comments, w_parsed>>
    /\ UNCHANGED nonWalkVars

\* Line 200: the loop is over.
WalkEnd ==
    /\ w_pc = "walk" /\ w_i = 0
    /\ w_result' = w_score_to_find
    /\ w_pc' = "done"
    /\ UNCHANGED <<w_current_score, w_comments, w_parsed, w_i, w_score_to_find>>
    /\ UNCHANGED nonWalkVars

NextWalk == ParseComment \/ CheckLatest \/ WalkStep \/ WalkEnd

SpecWalk == InitWalk /\ [][NextWalk]_vars

\* ------------------------------------------------------------- claim C11
RECURSIVE Reverse(_)
Reverse(s) == IF s = <<>> THEN <<>> ELSE Reverse(Tail(s)) \o <<Head(s)>>

\* The walk as the claim words it: visited are the earlier records, newest
\* first; None as soon as the target is absent, the final target otherwise.
RECURSIVE BackwardWalk(_, _)
BackwardWalk(target, visited) ==
    IF IsNone(target) THEN None
    ELSE IF visited = <<>> THEN target
    ELSE IF PyEq(Head(visited).new, target)
         THEN BackwardWalk(Head(visited).previous, Tail(visited))
         ELSE BackwardWalk(target, Tail(visited))

\* The change-score records among the comments, in order (no comment raises).
RECURSIVE RecordsOf(_)
RecordsOf(comments) ==
    IF comments = <<>> THEN <<>>
    ELSE LET r == parse_change_score_comment(Head(comments))
         IN  (IF r.tag = "ok" THEN <<r>> ELSE <<>>) \o RecordsOf(Tail(comments))

Link(previous, new) == Text(build_change_score_comment(previous, new))

LinkedChain == <<Link(Score(85), Score(90)), Link(Score(90), Score(95))>>
ChainWithoutOrigin == <<Link(None, Score(90)), Link(Score(90), Score(95))>>
UnlinkedLast == <<Link(Score(85), Score(90)), Link(Score(88), Score(95))>>

RECURSIVE OnlyRecords(_)
OnlyRecords(comments) ==
    IF comments = <<>> THEN <<>>
    ELSE (IF parse_change_score_comment(Head(comments)).tag = "ok"
          THEN <<Head(comments)>> ELSE <<>>) \o OnlyRecords(Tail(comments))

\* What the call gives for the current score and the records alone.
FromRecordsAlone ==
    LET records == RecordsOf(w_comments)
    IN  /\ (records = <<>> \/ ~PyEq(w_current_score, records[Len(records)].new)) =>
              w_result = w_current_score
        /\ w_result = find_last_manual_score(w_current_score, OnlyRecords(w_comments)).value

\* C12: find_last_manual_score returns current_score unchanged whenever no
\* comment parses as a change-score record or current_score differs from the
\* new value of the last record, and its result depends only on current_score
\* and the ordered subsequence of records: comments that are not records,
\* wherever they stand, never change the result.
C12_OnlyRecordsMatter ==
    w_pc \in {"done", "raised"} => (w_pc = "done" /\ FromRecordsAlone)

\* What does hold: every call that returns gives what the records alone give.
C12_OnlyRecordsMatterOnReturn == w_pc = "done" => FromRecordsAlone

\* A call over the comments 85->90, 'change-score new: 1.2.3' that raised:
\* without the second comment, which is no record, it returns.
C12_NonRecordRaised ==
    /\ w_pc = "raised" /\ w_comments = <<Link(Score(85), Score(90)), Malformed>>
    /\ w_current_score = Score(90)

\* ================================== derive_assignment_score: skipped students, bindings
\* The students whose target submission the compute loop has dealt with.
Processed ==
    IF r_cmd # "derive" THEN {}
    ELSE IF r_pc = "compute" THEN { InOrder(StudentIds)[k] : k \in 1..(r_i - 1) }
    ELSE IF r_pc \in {"report", "commit", "done"} \/ (r_pc = "crashed" /\ r_calls # <<>>)
    THEN StudentIds
    ELSE {}

\* The variables of the formula for which Canvas holds no score of the student.
Lacking(user_id) ==
    { v \in Range(r_var_names) : IsNone(SourceScore(r_assignments[v].assignment_id, user_id)) }

Computed == { r_computed[k].user_id : k \in 1..Len(r_computed) }

WarnedMissing(user_id) ==
    \E i \in 1..Len(r_out) :
        /\ r_out[i].level = "warn" /\ r_out[i].msg = "missing"
        /\ r_out[i].about[1] = user_id
        /\ Range(r_out[i].about[2]) = Lacking(user_id)

\* C13: every target submission whose student lacks a percentage for at least
\* one variable of the formula, a student without any source score included,
\* is skipped, counted in the skipped tally, kept out of the computed scores,
\* and a warning naming the missing variables is emitted.
C13_MissingSkippedWithWarning ==
    \A u \in Processed :
        Lacking(u) # {} =>
            /\ u \notin Computed
            /\ r_skipped_count + Len(r_computed) = Cardinality(Processed)
            /\ WarnedMissing(u)

\* What does hold: such a student is skipped and counted, and is warned about
\* exactly when at least one source score of theirs is recorded.
C13_MissingSkippedAndCounted ==
    \A u \in Processed :
        Lacking(u) # {} =>
            /\ u \notin Computed
            /\ r_skipped_count + Len(r_computed) = Cardinality(Processed)
            /\ WarnedMissing(u) <=> Lacking(u) # Range(r_var_names)

\* A run that skipped a student without any source score and said nothing.
C13_SilentSkip ==
    /\ r_cmd = "derive" /\ r_pc = "done"
    /\ \E u \in StudentIds : Lacking(u) = Range(r_var_names) /\ ~WarnedMissing(u)

\* ------------------------------------------------------------- claim C14
\* Every variable of the formula is bound to an assignment.
AllBound == r_var_names # <<>> /\ DOMAIN r_assignments = Range(r_var_names)

\* Two distinct variables bound to one assignment id.
SharedBinding ==
    { pair \in Range(r_var_names) \X Range(r_var_names) :
        /\ pair[1] # pair[2]
        /\ r_assignments[pair[1]].assignment_id = r_assignments[pair[2]].assignment_id }

\* C14: the binding of variables to assignments is injective whenever the
\* fetching of scores starts: if two distinct variables resolve to the same
\* assignment id, the command fails with a duplicate-reference error naming
\* both variables, before any submission is fetched for percentages and before
\* any write.
C14_InjectiveBinding ==
    (r_cmd = "derive" /\ AllBound /\ r_pc # "duplicates") =>
        IF SharedBinding = {}
        THEN ~(r_pc = "exit" /\ r_out[Len(r_out)].msg = "inconsistent naming")
        ELSE /\ r_pc = "exit"
             /\ r_out[Len(r_out)].level = "error"
             /\ r_out[Len(r_out)].msg = "inconsistent naming"
             /\ <<r_out[Len(r_out)].about[1], r_out[Len(r_out)].about[2]>> \in SharedBinding
             /\ r_user_scores = <<>> /\ r_computed = <<>> /\ r_calls = <<>>

\* The run of the formula Q_1 + _1, whose variables both resolve to "Q 1", has
\* ended with the error that names the two.
C14_DuplicateRejected ==
    /\ r_cmd = "derive" /\ r_pc = "exit" /\ AllBound
    /\ r_out[Len(r_out)].msg = "inconsistent naming"
    /\ Range(r_out[Len(r_out)].about) = {"Q_1", "_1"}

\* ================================== normalize_name and get_assignment_normalized, call by call
MaxNameLen == 4
MaxAssignments == 3

\* Names over letters, digits, underscores and the characters that
\* normalize_name folds, and the three spellings of the docstring.
NameChars == {"Q", "1", "_", " ", "\t", "+", "-", "*", "/"}

Quiz == <<"Q", "u", "i", "z">>

DocNames ==
    { Quiz \o <<" ", "-", " ", "1">>, Quiz \o <<"-", "1">>, Quiz \o <<" ", "1">> }

NameInputs == UNION { [1..n -> NameChars] : n \in 0..MaxNameLen } \cup DocNames

\* Titles of the assignments of a course and names looked up in it.
Titles ==
    { <<"Q", " ", "1">>, <<"Q", "-", "1">>, <<"Q", " ", "1", "1">>, <<"Q">>,
      <<"A", "v", "g">>, <<"-">> }

LookedUp ==
    { <<"Q", "_", "1">>, <<"Q", " ", "1">>, <<"Q">>, <<"1">>, <<"Z">>, <<"_">> }

\* The assignments of a course, the id of each being its place in the list.
CourseOf(titles) == [i \in 1..Len(titles) |-> Assignment(i, titles[i], Points(10))]

NameCourses == { CourseOf(titles) : titles \in UNION { [1..n -> Titles] : n \in 0..MaxAssignments } }

NotCalled == [tag |-> "none"]

InitNames ==
    /\ IdleButNames
    /\ n_pc = "input"
    /\ n_once = <<>> /\ n_twice = <<>> /\ n_found = NotCalled
    /\ \/ /\ n_mode = "normalize"
          /\ n_name \in NameInputs
          /\ n_course = <<>> /\ n_var_name = <<>>
       \/ /\ n_mode = "resolve"
          /\ n_course \in NameCourses
          /\ n_var_name \in LookedUp
          /\ n_name = <<>>

\* normalize_name(name)
Normalize ==
    /\ n_pc = "input" /\ n_mode = "normalize"
    /\ n_once' = normalize_name(n_name)
    /\ n_pc' = "once"
    /\ UNCHANGED <<n_mode, n_name, n_twice, n_course, n_var_name, n_found>>
    /\ UNCHANGED nonNamesVars

\* normalize_name of what normalize_name returned
NormalizeAgain ==
    /\ n_pc = "once"
    /\ n_twice' = normalize_name(n_once)
    /\ n_pc' = "twice"
    /\ UNCHANGED <<n_mode, n_name, n_once, n_course, n_var_name, n_found>>
    /\ UNCHANGED nonNamesVars

\* get_assignment_normalized(course, var_name)
Resolve ==
    /\ n_pc = "input" /\ n_mode = "resolve"
    /\ n_found' = get_assignment_normalized(n_course, n_var_name)
    /\ n_pc' = "resolved"
    /\ UNCHANGED <<n_mode, n_name, n_once, n_twice, n_course, n_var_name>>
    /\ UNCHANGED nonNamesVars

NextNames == Normalize \/ NormalizeAgain \/ Resolve

SpecNames == InitNames /\ [][NextNames]_vars

\* ------------------------------------------------------------- claim C15
\* The candidates for the variable: the places of the assignments whose
\* normalized title contains the normalized variable; and the exact ones.
Candidates ==
    { i \in 1..Len(n_course) :
        Contains(normalize_name(n_var_name), normalize_name(n_course[i].title)) }

ExactCandidates ==
    { i \in Candidates : normalize_name(n_course[i].title) = normalize_name(n_var_name) }

\* C15: the candidates for a variable are the assignments whose normalized
\* title contains the normalized variable.  With no candidate the resolution
\* fails (not found); with one it returns it; with several it returns the one
\* whose normalized title equals the normalized variable when exactly one such
\* exists and fails otherwise (ambiguous).  It never returns an assignment
\* that is not a candidate.
C15_Resolution ==
    n_pc = "resolved" =>
        /\ Candidates = {} => n_found = Exit("not found")
        /\ Cardinality(Candidates) = 1 =>
              \E i \in Candidates : n_found = Found(n_course[i])
        /\ (Cardinality(Candidates) > 1 /\ Cardinality(ExactCandidates) = 1) =>
              \E i \in ExactCandidates : n_found = Found(n_course[i])
        /\ (Cardinality(Candidates) > 1 /\ Cardinality(ExactCandidates) # 1) =>
              n_found = Exit("multiple match")
        /\ n_found.tag = "ok" => \E i \in Candidates : n_found.assignment = n_course[i]

\* Q_1 looked up among "Q 11", "Q 1" and "Avg": two candidates, and the exact
\* one, which is not the first, is returned.
C15_ExactPreferred ==
    /\ n_pc = "resolved" /\ n_var_name = <<"Q", "_", "1">>
    /\ n_course = CourseOf(<< <<"Q", " ", "1", "1">>, <<"Q", " ", "1">>, <<"A", "v", "g">> >>)
    /\ n_found = Found(n_course[2])

\* Q_1 looked up among "Q 1" and "Q-1": two exact candidates, ambiguous.
C15_TwoExactAmbiguous ==
    /\ n_pc = "resolved" /\ n_var_name = <<"Q", "_", "1">>
    /\ n_course = CourseOf(<< <<"Q", " ", "1">>, <<"Q", "-", "1">> >>)
    /\ n_found = Exit("multiple match")

\* ------------------------------------------------------------- claim C16
\* C16: normalize_name is idempotent; its result holds no whitespace and none
\* of + - * / and neither starts nor ends with an underscore; 'Quiz - 1',
\* 'Quiz-1' and 'Quiz 1' all normalize to 'Quiz_1'.
C16_NormalForm ==
    /\ n_pc = "twice" => n_twice = n_once
    /\ (n_pc \in {"once", "twice"}) =>
          /\ \A i \in 1..Len(n_once) :
                ~IsSpace(n_once[i]) /\ n_once[i] \notin {"+", "-", "*", "/"}
          /\ n_once # <<>> => (n_once[1] # "_" /\ n_once[Len(n_once)] # "_")
          /\ n_name \in DocNames => n_once = Quiz \o <<"_", "1">>

\* 'Quiz - 1' has been normalized twice, to 'Quiz_1' both times.
C16_QuizNormalized ==
    /\ n_pc = "twice" /\ n_name = Quiz \o <<" ", "-", " ", "1">>
    /\ n_once = Quiz \o <<"_", "1">> /\ n_twice = n_once

\* A name with underscores of its own next to folded characters: "_ Q-"
\* becomes "Q".
C16_MixedStripped ==
    /\ n_pc = "twice" /\ n_name = <<"_", " ", "Q", "-">> /\ n_once = <<"Q">>

\* ================================== classify_link, call by call
\* The course being validated is 12 or 123; the site is https://canvas.
CourseIds == {12, 123}

Chars_courses == <<"/", "c", "o", "u", "r", "s", "e", "s", "/">>
Chars_mailto == <<"m", "a", "i", "l", "t", "o", ":">>
Chars_javascript == <<"j", "a", "v", "a", "s", "c", "r", "i", "p", "t", ":">>
SiteUrl == <<"h", "t", "t", "p", "s", ":", "/", "/", "c", "a", "n", "v", "a", "s">>

StartsWith(text, prefix) == HasAt(text, 1, prefix)

\* The place of the first of the characters seps in text from pos on, or
\* Len(text) + 1 when there is none.
RECURSIVE FindAny(_, _, _)
FindAny(text, pos, seps) ==
    IF pos > Len(text) \/ text[pos] \in seps THEN pos ELSE FindAny(text, pos + 1, seps)

IsLower(c) ==
    c \in {"a", "b", "c", "d", "e", "f", "g", "h", "i", "j", "k", "l", "m", "n", "o", "p",
           "q", "r", "s", "t", "u", "v", "w", "x", "y", "z"}

\* scheme_chars of urllib.parse: letters, digits, + - .   (the URLs of this
\* model hold no capital letter, no whitespace and no semicolon).
IsSchemeChar(c) == IsLower(c) \/ IsDigit(c) \/ c \in {"+", "-", "."}

\* urlparse(url): scheme up to the first colon when it is a scheme name,
\* netloc after // up to the next / ? or #, then path, query and fragment.
urlparse(url) ==
    LET colon == FindAny(url, 1, {":"})
        has_scheme == /\ colon <= Len(url) /\ colon > 1
                      /\ IsLower(url[1])
                      /\ \A i \in 1..(colon - 1) : IsSchemeChar(url[i])
        scheme == IF has_scheme THEN SubSeq(url, 1, colon - 1) ELSE <<>>
        rest1 == IF has_scheme THEN SubSeq(url, colon + 1, Len(url)) ELSE url
        has_netloc == StartsWith(rest1, <<"/", "/">>)
        stop == FindAny(rest1, 3, {"/", "?", "#"})
        netloc == IF has_netloc THEN SubSeq(rest1, 3, stop - 1) ELSE <<>>
        rest2 == IF has_netloc THEN SubSeq(rest1, stop, Len(rest1)) ELSE rest1
        hash == FindAny(rest2, 1, {"#"})
        fragment == SubSeq(rest2, hash + 1, Len(rest2))
        rest3 == SubSeq(rest2, 1, hash - 1)
        mark == FindAny(rest3, 1, {"?"})
    IN  [scheme |-> scheme, netloc |-> netloc, path |-> SubSeq(rest3, 1, mark - 1),
         query |-> SubSeq(rest3, mark + 1, Len(rest3)), fragment |-> fragment]

\* f'/courses/{course_id}'
CoursePrefix(course_id) == Chars_courses \o Digits(course_id)

Classified(category, normalized) == [category |-> category, normalized |-> normalized]

\* Lines 153-157 and 163-167: the category of a path of the site.
ClassifyPath(path, url, course_id) ==
    IF StartsWith(path, CoursePrefix(course_id))
    THEN Classified("internal", Text(Split(Split(path, "?")[1], "#")[1]))
    ELSE IF StartsWith(path, Chars_courses) THEN Classified("internal_other", Text(path))
    ELSE Classified("skip", AbsentText)

\* url is a text or None (AbsentText).
classify_link(url, canvas_domain, course_id) ==
    LET parsed == urlparse(url.chars)
        canvas_parsed == urlparse(canvas_domain)
    IN  IF \/ ~url.present \/ url.chars = <<>>
           \/ StartsWith(url.chars, <<"#">>)
           \/ StartsWith(url.chars, Chars_mailto)
           \/ StartsWith(url.chars, Chars_javascript)
        THEN Classified("skip", AbsentText)
        ELSE IF parsed.scheme = <<>> /\ parsed.netloc = <<>>
        THEN ClassifyPath(parsed.path, url, course_id)
        ELSE IF parsed.netloc = canvas_parsed.netloc
        THEN ClassifyPath(parsed.path, url, course_id)
        ELSE Classified("external", url)

\* The URLs classified: scheme, authority, path and tail put together.
UrlSchemes ==
    { <<>>, <<"h", "t", "t", "p", "s", ":">>, <<"h", "t", "t", "p", ":">>, <<"t", "e", "l",
    ":">>, <<"d", "a", "t", "a", ":">>, <<"m", "a", "i", "l", "t", "o", ":">>, <<"j", "a", "v",
    "a", "s", "c", "r", "i", "p", "t", ":">> }
UrlAuthorities ==
    { <<>>, <<"/", "/", "c", "a", "n", "v", "a", "s">>, <<"/", "/", "o", "t", "h", "e", "r">>,
    <<"/", "/">> }
UrlPaths == { <<>>,
      <<"/", "c", "o", "u", "r", "s", "e", "s", "/">>,
      <<"/", "c", "o", "u", "r", "s", "e", "s", "/", "1", "2">>,
      <<"/", "c", "o", "u", "r", "s", "e", "s", "/", "1", "2", "3">>,
      <<"/", "c", "o", "u", "r", "s", "e", "s", "/", "1", "2", "3", "/", "p">>,
      <<"/", "c", "o", "u", "r", "s", "e", "s", "/", "1", "2", "3", "4", "/", "p">>,
      <<"/", "c", "o", "u", "r", "s", "e", "s", "/", "9", "/", "p">>,
      <<"/", "p", "r", "o", "f", "i", "l", "e">>,
      <<"c", "o", "u", "r", "s", "e", "s", "/", "1", "2", "3">>,
      <<"5">> }
UrlTails == { <<>>, <<"?", "q">>, <<"#", "f">>, <<"?", "q", "#", "f">> }

Urls ==
    { Text(s \o a \o p \o t) : s \in UrlSchemes, a \in UrlAuthorities, p \in UrlPaths,
                               t \in UrlTails } \cup { AbsentText }

InitClassify ==
    /\ IdleButClassify
    /\ k_pc = "input"
    /\ k_url \in Urls
    /\ k_canvas_domain = SiteUrl
    /\ k_course_id \in CourseIds
    /\ k_result = [category |-> "none"]

\* category, normalized = classify_link(url, canvas_url, course_id)
Classify ==
    /\ k_pc = "input"
    /\ k_result' = classify_link(k_url, k_canvas_domain, k_course_id)
    /\ k_pc' = "classified"
    /\ UNCHANGED <<k_url, k_canvas_domain, k_course_id>>
    /\ UNCHANGED nonClassifyVars

NextClassify == Classify

SpecClassify == InitClassify /\ [][NextClassify]_vars

\* ------------------------------------------------------------- claims C17, C18
Parsed == urlparse(k_url.chars)

Skipped ==
    \/ ~k_url.present \/ k_url.chars = <<>>
    \/ StartsWith(k_url.chars, <<"#">>)
    \/ StartsWith(k_url.chars, Chars_mailto)
    \/ StartsWith(k_url.chars, Chars_javascript)

\* A relative URL, or an absolute one of the site.
Relative == Parsed.scheme = <<>> /\ Parsed.netloc = <<>>
SameSite == ~Skipped /\ (Relative \/ Parsed.netloc = urlparse(k_canvas_domain).netloc)

\* The id that follows /courses/ in the path: the text up to the next slash.
CourseOfPath(path) ==
    SubSeq(path, Len(Chars_courses) + 1, FindAny(path, Len(Chars_courses) + 1, {"/"}) - 1)

UnderCourses(path) ==
    /\ StartsWith(path, Chars_courses)
    /\ CourseOfPath(path) # <<>>
    /\ \A i \in 1..Len(CourseOfPath(path)) : IsDigit(CourseOfPath(path)[i])

\* C17: classify_link returns 'internal' only for a relative or same-origin
\* path under /courses/{course_id} of the course being validated, and
\* 'internal_other' for every relative or same-origin path under
\* /courses/{other_id} with other_id different from course_id, an other_id
\* whose digits begin with course_id included (123 and /courses/1234/...).
C17_CourseOfLink ==
    k_pc = "classified" =>
        /\ k_result.category = "internal" =>
              /\ SameSite /\ UnderCourses(Parsed.path)
              /\ CourseOfPath(Parsed.path) = Digits(k_course_id)
        /\ (SameSite /\ UnderCourses(Parsed.path)
                /\ CourseOfPath(Parsed.path) # Digits(k_course_id)) =>
              k_result.category = "internal_other"

\* What does hold: the two categories are told apart by the prefix
\* /courses/{course_id} of the path, whatever follows it.
C17_CourseByPrefix ==
    k_pc = "classified" =>
        /\ k_result.category = "internal" <=>
              (SameSite /\ StartsWith(Parsed.path, CoursePrefix(k_course_id)))
        /\ k_result.category = "internal_other" <=>
              (SameSite /\ StartsWith(Parsed.path, Chars_courses)
                  /\ ~StartsWith(Parsed.path, CoursePrefix(k_course_id)))

\* /courses/1234/p classified for course 123: internal.
C17_LongerIdInternal ==
    /\ k_pc = "classified" /\ k_course_id = 123
    /\ k_url = Text(Chars_courses \o <<"1", "2", "3", "4", "/", "p">>)
    /\ k_result.category = "internal"

\* C18: classify_link returns 'external' only for URLs with a non-empty
\* authority different from that of the site; a URL with a scheme and no
\* authority (tel:, data:) is never 'external'; origins are compared only for
\* absolute URLs.
C18_ExternalHasAuthority ==
    k_pc = "classified" =>
        /\ k_result.category = "external" =>
              /\ Parsed.netloc # <<>>
              /\ Parsed.netloc # urlparse(k_canvas_domain).netloc
        /\ (Parsed.scheme # <<>> /\ Parsed.netloc = <<>>) => k_result.category # "external"
        /\ Relative => k_result.category # "external"

\* What does hold: 'external' is every URL that is not skipped, is not
\* relative and whose authority, empty or not, is not that of the site.
C18_ExternalIsTheRest ==
    k_pc = "classified" =>
        /\ k_result.category = "external" <=>
              (~Skipped /\ ~Relative /\ Parsed.netloc # urlparse(k_canvas_domain).netloc)
        /\ Relative => k_result.category # "external"

\* tel:5 classified: external.
C18_TelExternal ==
    /\ k_pc = "classified" /\ k_url = Text(<<"t", "e", "l", ":", "5">>)
    /\ k_result.category = "external"

\* ================================== check_external_link over the links of a run
MaxLinks == 3

\* The external URLs met in the content of the course, in the order met.
ExternalUrls == {"https://a", "https://b"}
LinkLists == UNION { [1..n -> ExternalUrls] : n \in 0..MaxLinks }

\* What a request meets: a response with a status, or an exception of requests.
Response(status) == [kind |-> "response", status_code |-> status]
Fault(kind) == [kind |-> kind, status_code |-> 0]
HeadReplies ==
    { Response(200), Response(404), Response(405), Response(500),
      Fault("ConnectionError"), Fault("Timeout"), Fault("RequestException") }
GetReplies ==
    { Response(200), Response(404), Response(405), Fault("ConnectionError"),
      Fault("Timeout") }

Request(method, url) == [method |-> method, url |-> url]

\* (ok, msg) of lines 265-272 for the last reply; msg is None, f"HTTP {status}",
\* "connection failed", "timeout" or the text of the exception.
Verdict(reply) ==
    IF reply.kind = "response"
    THEN [ok |-> reply.status_code < 400,
          msg |-> IF reply.status_code < 400 THEN <<"None">>
                  ELSE <<"HTTP", reply.status_code>>]
    ELSE IF reply.kind = "ConnectionError" THEN [ok |-> FALSE, msg |-> <<"connection failed">>]
    ELSE IF reply.kind = "Timeout" THEN [ok |-> FALSE, msg |-> <<"timeout">>]
    ELSE [ok |-> FALSE, msg |-> <<"str(e)">>]

InitExternal ==
    /\ IdleButExternal
    /\ e_pc = "links"
    /\ e_external_links \in BOOLEAN
    /\ e_urls \in LinkLists
    /\ e_i = 1
    /\ e_cache = <<>>
    /\ e_sent = <<>>
    /\ e_replies = <<>>
    /\ e_returns = <<>>
    /\ e_link_issues = 0

\* The check without the cache: every call asks the network.
never_cached(url, cache) == FALSE

\* A GET after every HEAD that was answered with an error status.
retry_on_error(head) == head.kind = "response" /\ head.status_code >= 400

\* if resp.status_code == 405
NeedsGet(head) == head.kind = "response" /\ head.status_code = 405

\* if url in cache
in_cache(url, cache) == url \in DOMAIN cache

\* One external link of the loop of lines 413-435 with --external-links:
\* check_external_link(url, timeout, ext_cache), then the warning.
CheckExternalLink ==
    /\ e_pc = "links" /\ e_i <= Len(e_urls) /\ e_external_links
    /\ LET url == e_urls[e_i]
       IN  IF in_cache(url, e_cache)
           THEN /\ e_returns' = Append(e_returns, [url |-> url, ok |-> e_cache[url].ok,
                                                   msg |-> e_cache[url].msg, requests |-> 0])
                /\ e_link_issues' = e_link_issues + (IF e_cache[url].ok THEN 0 ELSE 1)
                /\ UNCHANGED <<e_cache, e_sent, e_replies>>
           ELSE \E head \in HeadReplies, get \in GetReplies :
                   LET retried == NeedsGet(head)
                       last == IF retried THEN get ELSE head
                       sent == IF retried
                               THEN <<Request("HEAD", url), Request("GET", url)>>
                               ELSE <<Request("HEAD", url)>>
                   IN  /\ e_sent' = e_sent \o sent
                       /\ e_replies' = e_replies \o (IF retried THEN <<head, get>> ELSE <<head>>)
                       /\ e_cache' = (url :> Verdict(last)) @@ e_cache
                       /\ e_returns' = Append(e_returns,
                                              [url |-> url, ok |-> Verdict(last).ok,
                                               msg |-> Verdict(last).msg,
                                               requests |-> Len(sent)])
                       /\ e_link_issues' = e_link_issues + (IF Verdict(last).ok THEN 0 ELSE 1)
    /\ e_i' = e_i + 1
    /\ UNCHANGED <<e_pc, e_external_links, e_urls>>
    /\ UNCHANGED nonExternalVars

\* The same link with --no-external-links: nothing is checked.
SkipExternalLink ==
    /\ e_pc = "links" /\ e_i <= Len(e_urls) /\ ~e_external_links
    /\ e_i' = e_i + 1
    /\ UNCHANGED <<e_pc, e_external_links, e_urls, e_cache, e_sent, e_replies, e_returns,
                   e_link_issues>>
    /\ UNCHANGED nonExternalVars

\* The content is exhausted.
EndOfLinks ==
    /\ e_pc = "links" /\ e_i > Len(e_urls)
    /\ e_pc' = "done"
    /\ UNCHANGED <<e_external_links, e_urls, e_i, e_cache, e_sent, e_replies, e_returns,
                   e_link_issues>>
    /\ UNCHANGED nonExternalVars

NextExternal == CheckExternalLink \/ SkipExternalLink \/ EndOfLinks

SpecExternal == InitExternal /\ [][NextExternal]_vars

\* ------------------------------------------------------------- claim C19
HeadsFor(url) == { j \in 1..Len(e_sent) : e_sent[j] = Request("HEAD", url) }

\* C19: over the calls of check_external_link that share the cache of one
\* validation run, at most one HEAD request is issued for each distinct URL,
\* and every later call for a URL returns the (ok, message) of the first call
\* for it without issuing a request.
C19_CheckedOnce ==
    /\ \A url \in ExternalUrls : Cardinality(HeadsFor(url)) <= 1
    /\ \A i, j \in 1..Len(e_returns) :
          (i < j /\ e_returns[i].url = e_returns[j].url) =>
              /\ e_returns[j].ok = e_returns[i].ok
              /\ e_returns[j].msg = e_returns[i].msg
              /\ e_returns[j].requests = 0

\* https://a met three times: one HEAD, answered 404, and three times the
\* same verdict.
C19_ThreeTimesOneRequest ==
    /\ e_pc = "done" /\ e_urls = <<"https://a", "https://a", "https://a">>
    /\ e_sent = <<Request("HEAD", "https://a")>>
    /\ Len(e_returns) = 3 /\ ~e_returns[3].ok /\ e_returns[3].msg = <<"HTTP", 404>>
    /\ e_link_issues = 3

\* ------------------------------------------------------------- claim C24
\* The requests issued before the k-th call returned.
RECURSIVE SentBy(_)
SentBy(k) == IF k = 0 THEN 0 ELSE SentBy(k - 1) + e_returns[k].requests

\* The calls that did not find their URL in the cache.
Uncached == { k \in 1..Len(e_returns) : \A j \in 1..(k - 1) : e_returns[j].url # e_returns[k].url }

\* C24: a call of check_external_link that is not answered from the cache
\* issues exactly one HEAD request first, a GET only if that HEAD was answered
\* 405 and then exactly one, without any further retry; it is ok if and only
\* if the status of the last response is below 400; a connection failure, a
\* timeout or another transport fault gives (not ok, message) and no
\* exception; and in every one of these cases the outcome is in the cache.
C24_RequestProtocol ==
    \A k \in Uncached :
        LET call == e_returns[k]
            first == SentBy(k - 1) + 1
            last == e_replies[SentBy(k)]
        IN  /\ call.requests \in {1, 2}
            /\ e_sent[first] = Request("HEAD", call.url)
            /\ call.requests = 2 <=> e_replies[first] = Response(405)
            /\ call.requests = 2 => e_sent[first + 1] = Request("GET", call.url)
            /\ IF last.kind = "response"
               THEN /\ call.ok <=> last.status_code < 400
                    /\ call.msg = IF call.ok THEN <<"None">> ELSE <<"HTTP", last.status_code>>
               ELSE /\ ~call.ok
                    /\ call.msg = IF last.kind = "ConnectionError" THEN <<"connection failed">>
                                  ELSE IF last.kind = "Timeout" THEN <<"timeout">>
                                  ELSE <<"str(e)">>
            /\ call.url \in DOMAIN e_cache
            /\ e_cache[call.url] = [ok |-> call.ok, msg |-> call.msg]

\* A HEAD answered 405 and the GET answered 405 too: two requests, not ok,
\* 'HTTP 405', cached; then a HEAD that timed out: one request, 'timeout'.
C24_GetAnswered405ThenTimeout ==
    /\ e_pc = "done" /\ e_urls = <<"https://a", "https://b">>
    /\ e_sent = <<Request("HEAD", "https://a"), Request("GET", "https://a"),
                  Request("HEAD", "https://b")>>
    /\ e_replies = <<Response(405), Response(405), Fault("Timeout")>>
    /\ e_cache["https://a"] = [ok |-> FALSE, msg |-> <<"HTTP", 405>>]
    /\ e_cache["https://b"] = [ok |-> FALSE, msg |-> <<"timeout">>]

\* ================================== check_until_date_consistency_for_group, loop by loop
MaxGroup == 3

\* A date of Canvas: None, or the text 2024-01-<day>T<hour>:<minute>:<second>Z.
NoInstant == [present |-> FALSE, day |-> 0, hour |-> 0, minute |-> 0, second |-> 0]
IsoText(day, hour, minute, second) ==
    [present |-> TRUE, day |-> day, hour |-> hour, minute |-> minute, second |-> second]

\* parse_iso_date: None for no text, otherwise the instant, in seconds.
NoDatetime == [present |-> FALSE, seconds |-> 0]
parse_iso_date(dt_str) ==
    IF ~dt_str.present THEN NoDatetime
    ELSE [present |-> TRUE,
          seconds |-> ((dt_str.day * 24 + dt_str.hour) * 60 + dt_str.minute) * 60
                          + dt_str.second]

\* One part of a formatted duration: f"{n} day{'s' if n != 1 else ''}"
Part(n, unit) == <<n, IF n # 1 THEN unit \o "s" ELSE unit>>

\* format_timedelta(td), td in seconds: the parts that ', ' joins.
format_timedelta(td) ==
    LET days == td \div 86400
        hours == (td % 86400) \div 3600
        minutes == (td % 3600) \div 60
        parts == (IF days # 0 THEN <<Part(days, "day")>> ELSE <<>>)
                  \o (IF hours # 0 THEN <<Part(hours, "hour")>> ELSE <<>>)
                  \o (IF minutes # 0 THEN <<Part(minutes, "minute")>> ELSE <<>>)
    IN  IF td = 0 \/ parts = <<>> THEN << <<0, "seconds">> >> ELSE parts

non_submittable == {"none", "not_graded"}

\* The assignments of a group: submission types and the two dates.
SubmissionTypes == { {"online_upload"}, {"none"}, {"none", "online_upload"} }

DueDate == IsoText(15, 23, 59, 0)
DatePairs ==
    { <<DueDate, IsoText(17, 23, 59, 0)>>, <<DueDate, IsoText(16, 23, 59, 0)>>,
      <<DueDate, NoInstant>>, <<NoInstant, IsoText(17, 23, 59, 0)>>,
      <<NoInstant, NoInstant>> }

Shapes == SubmissionTypes \X DatePairs

GroupAssignment(i, shape) ==
    [name |-> <<"HW", i>>, submission_types |-> shape[1], due_at |-> shape[2][1],
     lock_at |-> shape[2][2]]

Issue(name, message) == [name |-> name, message |-> message]

InitUntil ==
    /\ IdleButUntil
    /\ u_pc = "examine"
    /\ u_assignments \in UNION { { [i \in 1..n |-> GroupAssignment(i, shapes[i])] :
                                       shapes \in [1..n -> Shapes] } : n \in 0..MaxGroup }
    /\ u_i = 1
    /\ u_offsets = <<>>
    /\ u_offset_assignments = <<>>
    /\ u_issues = <<>>
    /\ u_result = <<>>

\* One turn of  for a in assignments  (lines 51-68).
Examine ==
    /\ u_pc = "examine" /\ u_i <= Len(u_assignments)
    /\ LET a == u_assignments[u_i]
           due == parse_iso_date(a.due_at)
           lock == parse_iso_date(a.lock_at)
       IN  IF a.submission_types \cap non_submittable # {}
           THEN /\ u_issues' = IF ~a.due_at.present
                               THEN Append(u_issues,
                                           Issue(a.name, <<"non-submittable assignment missing due date">>))
                               ELSE u_issues
                /\ UNCHANGED <<u_offsets, u_offset_assignments>>
           ELSE IF due.present /\ lock.present
           THEN /\ u_offsets' = Append(u_offsets, lock.seconds - due.seconds)
                /\ u_offset_assignments' =
                       Append(u_offset_assignments, <<a.name, lock.seconds - due.seconds>>)
                /\ UNCHANGED u_issues
           ELSE IF due.present
           THEN /\ u_issues' = Append(u_issues,
                                      Issue(a.name, <<"has due date but no until/lock date">>))
                /\ UNCHANGED <<u_offsets, u_offset_assignments>>
           ELSE IF lock.present
           THEN /\ u_issues' = Append(u_issues,
                                      Issue(a.name, <<"has until/lock date but no due date">>))
                /\ UNCHANGED <<u_offsets, u_offset_assignments>>
           ELSE UNCHANGED <<u_offsets, u_offset_assignments, u_issues>>
    /\ u_i' = u_i + 1
    /\ UNCHANGED <<u_pc, u_assignments, u_result>>
    /\ UNCHANGED nonUntilVars

\* Lines 70-71: no offset was recorded.
ReturnNoOffset ==
    /\ u_pc = "examine" /\ u_i > Len(u_assignments) /\ u_offsets = <<>>
    /\ u_result' = [offset |-> NoDatetime, count |-> 0, issues |-> u_issues]
    /\ u_pc' = "returned"
    /\ UNCHANGED <<u_assignments, u_i, u_offsets, u_offset_assignments, u_issues>>
    /\ UNCHANGED nonUntilVars

Count(offsets, offset) == Cardinality({ i \in 1..Len(offsets) : offsets[i] = offset })

\* The mode taken to be the first offset recorded, whatever its frequency.
first_offset(offsets) == offsets[1]

\* Counter(offsets).most_common(1)[0][0]: the offset counted most often, the
\* one recorded first among several counted equally often.
most_common(offsets) ==
    LET best == { i \in 1..Len(offsets) :
                    \A j \in 1..Len(offsets) :
                        Count(offsets, offsets[i]) >= Count(offsets, offsets[j]) }
    IN  offsets[CHOOSE i \in best : \A j \in best : i <= j]

\* Lines 73-80: the mode, then an issue for every offset that differs from it.
ReturnMode ==
    /\ u_pc = "examine" /\ u_i > Len(u_assignments) /\ u_offsets # <<>>
    /\ LET most_common_offset == most_common(u_offsets)
           most_common_count == Count(u_offsets, most_common_offset)
           Differs(pair) == pair[2] # most_common_offset
           outliers == SelectSeq(u_offset_assignments, Differs)
           flagged == [k \in 1..Len(outliers) |->
                          Issue(outliers[k][1],
                                <<"offset is", format_timedelta(outliers[k][2]), "expected",
                                  format_timedelta(most_common_offset)>>)]
       IN  /\ u_issues' = u_issues \o flagged
           /\ u_result' = [offset |-> [present |-> TRUE, seconds |-> most_common_offset],
                           count |-> most_common_count, issues |-> u_issues \o flagged]
    /\ u_pc' = "returned"
    /\ UNCHANGED <<u_assignments, u_i, u_offsets, u_offset_assignments>>
    /\ UNCHANGED nonUntilVars

NextUntil == Examine \/ ReturnNoOffset \/ ReturnMode

SpecUntil == InitUntil /\ [][NextUntil]_vars

\* ------------------------------------------------------------- claim C20
\* An assignment is submittable unless its submission types are all of the
\* kind 'none' / 'not_graded'.
Submittable(a) == ~(a.submission_types \subseteq non_submittable)

\* No type of the assignment is of that kind: what line 53 tests.
NothingNonSubmittable(a) == a.submission_types \cap non_submittable = {}

HasBothDates(a) == a.due_at.present /\ a.lock_at.present

OffsetOf(a) == parse_iso_date(a.lock_at).seconds - parse_iso_date(a.due_at).seconds

OffsetIssues(name) ==
    { k \in 1..Len(u_result.issues) :
        u_result.issues[k].name = name /\ u_result.issues[k].message[1] = "offset is" }

\* The returned offset is a most frequent one among the assignments at the
\* places Q, and exactly those of them that differ from it have an issue, one
\* each, with the two durations.
ModalCheck(Q) ==
    LET expected == u_result.offset.seconds
        Frequency(offset) == Cardinality({ i \in Q : OffsetOf(u_assignments[i]) = offset })
    IN  Q # {} =>
            /\ u_result.offset.present
            /\ Frequency(expected) > 0
            /\ \A i \in Q : Frequency(expected) >= Frequency(OffsetOf(u_assignments[i]))
            /\ \A i \in Q :
                  IF OffsetOf(u_assignments[i]) = expected
                  THEN OffsetIssues(u_assignments[i].name) = {}
                  ELSE /\ Cardinality(OffsetIssues(u_assignments[i].name)) = 1
                       /\ \A k \in OffsetIssues(u_assignments[i].name) :
                             u_result.issues[k].message
                                 = <<"offset is", format_timedelta(OffsetOf(u_assignments[i])),
                                     "expected", format_timedelta(expected)>>

Online(dates) == <<{"online_upload"}, dates>>
TwoDays == <<DueDate, IsoText(17, 23, 59, 0)>>
OneDay == <<DueDate, IsoText(16, 23, 59, 0)>>

TwoTwoOne ==
    <<GroupAssignment(1, Online(TwoDays)), GroupAssignment(2, Online(TwoDays)),
      GroupAssignment(3, Online(OneDay))>>

\* C20: the expected offset of a group is the most frequent lock-minus-due
\* offset among the submittable assignments that have both dates; every such
\* assignment whose offset differs from it gets exactly one issue naming its
\* actual and the expected duration, and none whose offset equals it gets one
\* (2 days, 2 days, 1 day: mode 2 days and one issue, for the third).
C20_ModalOffset ==
    u_pc = "returned" =>
        /\ ModalCheck({ i \in 1..Len(u_assignments) :
                          Submittable(u_assignments[i]) /\ HasBothDates(u_assignments[i]) })
        /\ u_assignments = TwoTwoOne =>
              /\ u_result.offset.seconds = 2 * 86400
              /\ u_result.issues
                     = <<Issue(<<"HW", 3>>, <<"offset is", << <<1, "day">> >>, "expected",
                                               << <<2, "days">> >> >>)>>

\* What does hold: the same, of the assignments that list no type of the kind
\* 'none' / 'not_graded'.
C20_ModalOffsetOfRecorded ==
    u_pc = "returned" =>
        /\ ModalCheck({ i \in 1..Len(u_assignments) :
                          NothingNonSubmittable(u_assignments[i])
                              /\ HasBothDates(u_assignments[i]) })
        /\ u_assignments = TwoTwoOne =>
              /\ u_result.offset.seconds = 2 * 86400
              /\ u_result.issues
                     = <<Issue(<<"HW", 3>>, <<"offset is", << <<1, "day">> >>, "expected",
                                               << <<2, "days">> >> >>)>>

\* The group 2 days, 2 days, 1 day has been checked.
C20_TwoTwoOneChecked ==
    /\ u_pc = "returned" /\ u_assignments = TwoTwoOne /\ Len(u_result.issues) = 1

\* Two assignments of 2 days and one of 1 day that lists 'none' next to
\* 'online_upload': no issue at all.
C20_MixedTypesUnflagged ==
    /\ u_pc = "returned"
    /\ u_assignments = <<GroupAssignment(1, Online(TwoDays)), GroupAssignment(2, Online(TwoDays)),
                         GroupAssignment(3, <<{"none", "online_upload"}, OneDay>>)>>
    /\ u_result.issues = <<>>

\* ================================== check_until_date_consistency_for_group, what it returns
\* ------------------------------------------------------------- claim C21
\* The assignments of the group that had a valid offset: those whose offset
\* line 63 recorded.
WithValidOffset == Len(u_offsets)

\* C21: total_counted, the second value returned, is the number of assignments
\* of the group that had a valid offset, also when the offsets are not all
\* equal, and it is 0 when the returned offset is None.
C21_TotalCounted ==
    u_pc = "returned" =>
        /\ u_result.count = WithValidOffset
        /\ ~u_result.offset.present => u_result.count = 0

\* What does hold: total_counted is the number of assignments whose offset is
\* the returned one, and 0 with no offset returned.
C21_CountOfTheMode ==
    u_pc = "returned" =>
        IF u_result.offset.present
        THEN u_result.count = Count(u_offsets, u_result.offset.seconds)
        ELSE u_result.count = 0 /\ u_offsets = <<>>

\* 2 days, 2 days, 1 day: three valid offsets, total_counted 2.
C21_ThreeOffsetsCountedTwo ==
    /\ u_pc = "returned" /\ u_assignments = TwoTwoOne
    /\ Len(u_offsets) = 3 /\ u_result.count = 2

\* ------------------------------------------------------------- claim C25
\* The assignments that the loop of line 51 has examined.
Examined == 1..(IF u_pc = "returned" THEN Len(u_assignments) ELSE u_i - 1)

\* The offsets recorded for the i-th assignment (lines 63-64).
Recorded(i) ==
    { k \in 1..Len(u_offset_assignments) : u_offset_assignments[k][1] = u_assignments[i].name }

\* The issues raised for the i-th assignment with the given message.
IssuesWith(i, message) ==
    { k \in 1..Len(u_issues) : u_issues[k] = Issue(u_assignments[i].name, <<message>>) }

Number(condition) == IF condition THEN 1 ELSE 0

\* Lines 58-68 have run for the i-th assignment: its offset is recorded or its
\* missing date is flagged.
TreatedAsSubmittable(i) ==
    LET a == u_assignments[i]
    IN  /\ Cardinality(Recorded(i)) = Number(HasBothDates(a))
        /\ \A k \in Recorded(i) : u_offset_assignments[k][2] = OffsetOf(a)
        /\ \A k \in Recorded(i) : u_offsets[k] = OffsetOf(a)
        /\ Cardinality(IssuesWith(i, "has due date but no until/lock date"))
               = Number(a.due_at.present /\ ~a.lock_at.present)
        /\ Cardinality(IssuesWith(i, "has until/lock date but no due date"))
               = Number(a.lock_at.present /\ ~a.due_at.present)
        /\ IssuesWith(i, "non-submittable assignment missing due date") = {}

\* Lines 54-56 have run for the i-th assignment: no offset, and an issue if
\* and only if it has no due date.
TreatedAsExempt(i) ==
    LET a == u_assignments[i]
    IN  /\ Recorded(i) = {}
        /\ Cardinality(IssuesWith(i, "non-submittable assignment missing due date"))
               = Number(~a.due_at.present)
        /\ IssuesWith(i, "has due date but no until/lock date") = {}
        /\ IssuesWith(i, "has until/lock date but no due date") = {}

\* C25: an assignment is exempted from the lock-offset analysis only if every
\* one of its submission types is 'none' or 'not_graded'; an assignment that
\* lists such a type together with a submittable one is treated as
\* submittable, its offset recorded or its missing date flagged; an exempt
\* assignment yields an issue if and only if it has no due date.
C25_ExemptOnlyIfExclusive ==
    \A i \in Examined :
        IF Submittable(u_assignments[i]) THEN TreatedAsSubmittable(i) ELSE TreatedAsExempt(i)

\* What does hold: an assignment is exempted if and only if it lists at least
\* one type of the kind 'none' / 'not_graded'.
C25_ExemptIfAnyNonSubmittable ==
    \A i \in Examined :
        IF NothingNonSubmittable(u_assignments[i]) THEN TreatedAsSubmittable(i)
        ELSE TreatedAsExempt(i)

\* An assignment with the types 'none' and 'online_upload', due and locking a
\* day later, has been examined: nothing recorded, nothing flagged.
C25_MixedTypesExempted ==
    /\ u_pc = "returned"
    /\ u_assignments = <<GroupAssignment(1, <<{"none", "online_upload"}, OneDay>>)>>
    /\ u_offsets = <<>> /\ u_result = [offset |-> NoDatetime, count |-> 0, issues |-> <<>>]

\* ------------------------------------------------------------- claim C26
\* C26: a submittable assignment with both dates has its lock-minus-due offset
\* recorded and no missing-date issue; with only a due date it has exactly one
\* 'no until/lock date' issue; with only a lock date exactly one 'no due date'
\* issue; with neither date no offset and no issue. A group with no recorded
\* offset returns (None, 0, the issues collected so far).
C26_SubmittableDates ==
    /\ \A i \in Examined : Submittable(u_assignments[i]) => TreatedAsSubmittable(i)
    /\ u_pc = "returned" /\ u_offsets = <<>> =>
           u_result = [offset |-> NoDatetime, count |-> 0, issues |-> u_issues]

\* What does hold: the same, of the assignments that list no type of the kind
\* 'none' / 'not_graded'.
C26_DatesOfTheUnexempted ==
    /\ \A i \in Examined : NothingNonSubmittable(u_assignments[i]) => TreatedAsSubmittable(i)
    /\ u_pc = "returned" /\ u_offsets = <<>> =>
           u_result = [offset |-> NoDatetime, count |-> 0, issues |-> u_issues]

\* An assignment with the types 'none' and 'online_upload' and a due date but
\* no lock date: no issue, and (None, 0, no issues) is returned.
C26_MixedTypesLockMissing ==
    /\ u_pc = "returned"
    /\ u_assignments = <<GroupAssignment(1, <<{"none", "online_upload"}, <<DueDate, NoInstant>> >>)>>
    /\ u_issues = <<>> /\ u_result = [offset |-> NoDatetime, count |-> 0, issues |-> <<>>]

\* The four cases of an 'online_upload' assignment have been through the loop
\* in one group: one offset and the two issues.
C26_FourCasesExamined ==
    /\ u_pc = "returned" /\ Len(u_assignments) = 3
    /\ \A i \in 1..3 : u_assignments[i].submission_types = {"online_upload"}
    /\ Len(u_offsets) = 1
    /\ \E i, j \in 1..3 :
          /\ IssuesWith(i, "has due date but no until/lock date") # {}
          /\ IssuesWith(j, "has until/lock date but no due date") # {}

\* ================================== group_assignments_by_group, loop by loop
MaxGrouped == 3

\* Assignment-group ids: two groups of the course and one that is not in it.
GroupIds == {10, 20, 99}

\* Names a group of the course may carry; two groups may carry the same one.
GroupNames == {"Homework", "Quizzes", "Unknown Group (99)"}

\* group_names: {g.id: g.name for g in course.get_assignment_groups()}
GroupNameMaps == UNION { [ids -> GroupNames] : ids \in SUBSET {10, 20} }

GroupedAssignment(i, group_id) == [name |-> <<"HW", i>>, assignment_group_id |-> group_id]

\* f"Unknown Group ({group_id})"
UnknownGroup(group_id) == "Unknown Group (" \o ToString(group_id) \o ")"

\* group_names.get(group_id, f"Unknown Group ({group_id})")
GroupNameOf(group_names, group_id) ==
    IF group_id \in DOMAIN group_names THEN group_names[group_id]
    ELSE UnknownGroup(group_id)

InitGrouping ==
    /\ IdleButGrouping
    /\ g_pc = "group"
    /\ g_assignments \in UNION { { [i \in 1..n |-> GroupedAssignment(i, ids[i])] :
                                       ids \in [1..n -> GroupIds] } : n \in 0..MaxGrouped }
    /\ g_group_names \in GroupNameMaps
    /\ g_i = 1
    /\ g_groups = <<>>
    /\ g_result = <<>>

\* One turn of  for a in assignments  (lines 94-97); groups is a defaultdict(list).
GroupOne ==
    /\ g_pc = "group" /\ g_i <= Len(g_assignments)
    /\ LET a == g_assignments[g_i]
           group_name == GroupNameOf(g_group_names, a.assignment_group_id)
           bucket == IF group_name \in DOMAIN g_groups THEN g_groups[group_name] ELSE <<>>
       IN  g_groups' = (group_name :> Append(bucket, a)) @@ g_groups
    /\ g_i' = g_i + 1
    /\ UNCHANGED <<g_pc, g_assignments, g_group_names, g_result>>
    /\ UNCHANGED nonGroupingVars

\* Line 98: return dict(groups)
ReturnGroups ==
    /\ g_pc = "group" /\ g_i > Len(g_assignments)
    /\ g_result' = g_groups
    /\ g_pc' = "returned"
    /\ UNCHANGED <<g_assignments, g_group_names, g_i, g_groups>>
    /\ UNCHANGED nonGroupingVars

NextGrouping == GroupOne \/ ReturnGroups

SpecGrouping == InitGrouping /\ [][NextGrouping]_vars

\* ------------------------------------------------------------- claim C22
\* The places of bucket key that hold the i-th assignment.
PlacesIn(key, i) == { p \in 1..Len(g_result[key]) : g_result[key][p] = g_assignments[i] }

BucketsOf(i) == { key \in DOMAIN g_result : PlacesIn(key, i) # {} }

\* Every assignment is in exactly one bucket, once, no bucket holds anything
\* else or is empty, and each bucket keeps the input order.
PartitionInOrder ==
    /\ \A i \in 1..Len(g_assignments) :
          /\ Cardinality(BucketsOf(i)) = 1
          /\ \A key \in BucketsOf(i) : Cardinality(PlacesIn(key, i)) = 1
    /\ \A key \in DOMAIN g_result :
          /\ g_result[key] # <<>>
          /\ \A p \in 1..Len(g_result[key]) :
                \E i \in 1..Len(g_assignments) : g_result[key][p] = g_assignments[i]
          /\ \A p, q \in 1..Len(g_result[key]) :
                p < q => g_result[key][p].name[2] < g_result[key][q].name[2]

SameBucket(i, j) == BucketsOf(i) = BucketsOf(j)

SameNamedGroups ==
    <<GroupedAssignment(1, 10), GroupedAssignment(2, 20)>>

\* C22: the buckets partition the assignments by assignment-group id: every
\* assignment is in exactly one bucket, in input order, two assignments share
\* a bucket if and only if they have the same assignment_group_id, also when
\* two ids carry the same group name, and an id that is not in the group-name
\* map goes to the bucket 'Unknown Group (id)'.
C22_PartitionById ==
    g_pc = "returned" =>
        /\ PartitionInOrder
        /\ \A i, j \in 1..Len(g_assignments) :
              SameBucket(i, j)
                  <=> g_assignments[i].assignment_group_id = g_assignments[j].assignment_group_id
        /\ \A i \in 1..Len(g_assignments) :
              g_assignments[i].assignment_group_id \notin DOMAIN g_group_names
                  => BucketsOf(i) = {UnknownGroup(g_assignments[i].assignment_group_id)}

\* What does hold: the same partition, by the name the id is looked up as.
C22_PartitionByName ==
    g_pc = "returned" =>
        /\ PartitionInOrder
        /\ \A i, j \in 1..Len(g_assignments) :
              SameBucket(i, j)
                  <=> GroupNameOf(g_group_names, g_assignments[i].assignment_group_id)
                          = GroupNameOf(g_group_names, g_assignments[j].assignment_group_id)
        /\ \A i \in 1..Len(g_assignments) :
              g_assignments[i].assignment_group_id \notin DOMAIN g_group_names
                  => BucketsOf(i) = {UnknownGroup(g_assignments[i].assignment_group_id)}

\* Groups 10 and 20 are both called Homework: one bucket holds the assignments
\* of both.
C22_TwoIdsOneBucket ==
    /\ g_pc = "returned" /\ g_assignments = SameNamedGroups
    /\ g_group_names = (10 :> "Homework") @@ (20 :> "Homework")
    /\ DOMAIN g_result = {"Homework"} /\ Len(g_result["Homework"]) = 2

\* ================================== derive_assignment_score and set_due_dates: further properties
\* ------------------------------------------------------------- claim C23
\* The loop of line 267 has run to its end.
AfterFetch ==
    /\ r_cmd = "derive"
    /\ r_pc \in {"compute", "report", "commit", "done"}
           \/ (r_pc = "crashed" /\ r_assignments # <<>>)

\* The command has ended at line 271.
FailedNoPoints ==
    /\ r_cmd = "derive" /\ r_pc = "exit" /\ r_out # <<>>
    /\ r_out[Len(r_out)].level = "error" /\ r_out[Len(r_out)].msg = "no points possible"

\* The variables whose turn of the loop of line 267 is over.
Tabled ==
    IF AfterFetch THEN Range(r_var_names)
    ELSE IF r_cmd = "derive" /\ (r_pc = "fetch" \/ FailedNoPoints)
    THEN { r_var_names[k] : k \in 1..(r_i - 1) }
    ELSE {}

HasPercentage(user_id, var_name) ==
    user_id \in DOMAIN r_user_scores /\ var_name \in DOMAIN r_user_scores[user_id]

\* value = s / p * 100, as an equation between fractions.
IsPercentageOf(value, s, p) ==
    /\ value.t = "num" /\ value.x = "float"
    /\ value.n * ScoreValue(p).n * ScoreValue(s).d
           = 100 * ScoreValue(s).n * ScoreValue(p).d * value.d

\* C23: for each bound assignment with points-possible p the command fails if
\* p is absent or zero; otherwise every submission with a non-null raw score s
\* records s / p * 100 under that variable for that student, a raw score of 0
\* is recorded as 0 and not as missing, and a submission with a null score
\* records nothing, so that the student lacks the variable.
C23_ScoreTable ==
    r_cmd = "derive" =>
        /\ \A v \in Tabled :
              LET p == r_assignments[v].points_possible
              IN  /\ ~IsNone(p) /\ p.mant # 0
                  /\ \A u \in StudentIds :
                        LET s == SourceScore(r_assignments[v].assignment_id, u)
                        IN  IF IsNone(s) THEN ~HasPercentage(u, v)
                            ELSE /\ HasPercentage(u, v)
                                 /\ IsPercentageOf(r_user_scores[u][v], s, p)
                                 /\ s.mant = 0 => r_user_scores[u][v].n = 0
        /\ \A u \in DOMAIN r_user_scores : DOMAIN r_user_scores[u] \subseteq Tabled
        /\ FailedNoPoints =>
              LET p == r_assignments[r_var_names[r_i]].points_possible
              IN  /\ IsNone(p) \/ p.mant = 0
                  /\ r_computed = <<>> /\ r_calls = <<>>
        /\ r_pc = "fetch" /\ r_i <= Len(r_var_names) /\ r_i > 1 =>
              \A v \in Range(r_var_names) \ Tabled : \A u \in StudentIds : ~HasPercentage(u, v)

\* A run to its end with a student whose raw score of Q-2 is 0, recorded as
\* 0 percent, and a student without a score of Q-2, who lacks Q_2.
C23_ZeroRecordedNullLacking ==
    /\ r_cmd = "derive" /\ r_pc = "done"
    /\ \E u, w \in StudentIds :
          /\ HasPercentage(u, "Q_2") /\ r_user_scores[u]["Q_2"].n = 0
          /\ ~IsNone(SourceScore(2, u)) /\ SourceScore(2, u).mant = 0
          /\ IsNone(SourceScore(2, w)) /\ HasPercentage(w, "Q_1") /\ ~HasPercentage(w, "Q_2")

\* A run that ended on a source assignment worth 0 points.
C23_FailedOnZeroPoints ==
    /\ FailedNoPoints /\ ~IsNone(r_assignments[r_var_names[r_i]].points_possible)

\* ------------------------------------------------------------- claim C27
SectionIds == { Sections[k].id : k \in 1..Len(Sections) }

\* The create_override calls issued for an assignment and a section.
Creations(assignment_name, section_id) ==
    { c \in 1..Len(r_calls) :
        /\ r_calls[c].op = "create_override"
        /\ r_calls[c].assignment = assignment_name /\ r_calls[c].section = section_id }

\* The overrides that hold for an assignment and a section.
OverridesOf(held, assignment_name, section_id) ==
    { k \in 1..Len(held[assignment_name].overrides) :
        held[assignment_name].overrides[k].course_section_id = section_id }

\* C27: in commit mode at most one override is kept per assignment and
\* section: a line with a section edits the override of the section when one
\* exists and creates one otherwise, so over a dates file that names the same
\* assignment and section on several lines at most one creation is issued for
\* the pair and the later lines update the override the earlier line created.
C27_OneOverridePerSection ==
    (r_cmd = "set_due_dates" /\ ~r_dryrun /\ r_pc # "start") =>
        \A assignment_name \in DOMAIN r_canvas : \A section_id \in SectionIds :
            /\ Cardinality(Creations(assignment_name, section_id)) <= 1
            /\ Cardinality(OverridesOf(r_canvas, assignment_name, section_id)) <= 1
            /\ \A c \in Creations(assignment_name, section_id) :
                  \A d \in (c + 1)..Len(r_calls) :
                      (r_calls[d].assignment = assignment_name
                           /\ r_calls[d].section = section_id)
                          => /\ r_calls[d].op = "edit_override"
                             /\ r_calls[d].override = r_calls[c].override

\* What does hold: a line with a section creates an override exactly when the
\* assignments fetched at the start hold none for the section, and edits the
\* first one fetched otherwise.
C27_BySnapshot ==
    (r_cmd = "set_due_dates" /\ r_pc # "start") =>
        \A c \in 1..Len(r_calls) :
            r_calls[c].section # NoSection =>
                LET fetched == OverridesOf(r_fetched, r_calls[c].assignment, r_calls[c].section)
                IN  IF fetched = {} THEN r_calls[c].op = "create_override"
                    ELSE /\ r_calls[c].op = "edit_override"
                         /\ \E k \in fetched :
                               r_fetched[r_calls[c].assignment].overrides[k].id
                                   = r_calls[c].override

\* Two lines 'H [A]' over a course without overrides: two creations.
C27_CreatedTwice ==
    /\ r_cmd = "set_due_dates" /\ r_pc = "done"
    /\ r_lines[1] = r_lines[Len(r_lines)] /\ Len(r_lines) = 2
    /\ Cardinality(Creations(<<"H">>, 11)) = 2

\* A line 'H [A]' over a course that holds an override of H for section A:
\* the override is edited.
C27_ExistingEdited ==
    /\ r_cmd = "set_due_dates" /\ r_pc = "done" /\ Len(r_calls) = 1
    /\ r_calls[1].op = "edit_override" /\ r_calls[1].override = 101

\* ------------------------------------------------------------- claim C28
\* The lines of output with the given message.
Reports(msg) == { i \in 1..Len(r_out) : r_out[i].level = "info" /\ r_out[i].msg = msg }

\* C28: after every turn of the compute loop each target submission processed
\* so far is in exactly one of the outcomes computed and skipped, so that at
\* the end the number of computed scores plus the skipped count is the number
\* of target submissions, and in commit mode the number of updated grades that
\* is reported is the number of computed scores.
C28_Accounting ==
    r_cmd = "derive" =>
        /\ Len(r_computed) + r_skipped_count = Cardinality(Processed)
        /\ Computed \subseteq Processed /\ Cardinality(Computed) = Len(r_computed)
        /\ \A i \in Reports("computed") :
              /\ r_out[i].about = <<Len(r_computed), r_skipped_count>>
              /\ Len(r_computed) + r_skipped_count = Cardinality(StudentIds)
        /\ \A i \in Reports("updated") :
              /\ ~r_dryrun
              /\ r_out[i].about = <<Len(r_computed)>>
              /\ Len(r_calls) = Len(r_computed)

\* A run in commit mode that computed the score of one student, skipped the
\* other without a warning, and reported one updated grade.
C28_OneComputedOneSkipped ==
    /\ r_cmd = "derive" /\ r_pc = "done" /\ ~r_dryrun
    /\ Len(r_computed) = 1 /\ r_skipped_count = 1
    /\ Reports("updated") # {} /\ Reports("computed") # {}
    /\ \E u \in StudentIds : u \notin DOMAIN r_user_scores

====
